---- MODULE Spec2Model ----
(***************************************************************************)
(* ZhaoXi workbench: the agent orchestration and action-execution core of  *)
(* app/src-tauri/src/commands.rs (agent_chat, call_provider,               *)
(* agent_execute_actions_atomic, execute_action_with_transaction, the      *)
(* stage-event broadcaster and the session/audit store) over the SQLite    *)
(* tables of app/src-tauri/src/database.rs.                                *)
(*                                                                         *)
(* Conventions.  A serde_json Value is a tagged record: Str, Num, Bool,    *)
(* JNull, Obj (a function from keys to Values; its DOMAIN is the set of    *)
(* keys present).  Result<T, String> is a record with a field ok.  The     *)
(* user-facing message strings of the source are Chinese; the model        *)
(* carries ASCII renderings of them, one per source string.                *)
(***************************************************************************)
EXTENDS Integers, Sequences, FiniteSets, TLC

VARIABLES
    store,      \* the domain tables: todos, projects, events, personal_tasks
    audits,     \* table agent_action_audits, in insertion order
    sessions,   \* table agent_sessions, in insertion order
    emitted,    \* every AgentStreamEvent handed to app.emit, in emission order
    pending,    \* detached persist_agent_event tasks not yet run (indices of emitted)
    agent_events, \* table agent_events, in insertion order (indices of emitted)
    now,        \* the wall clock, in milliseconds
    chat,       \* per request slot: the position and locals of one agent_chat call
    lastBatch,  \* the last agent_execute_actions_atomic call: its input and outcome
    sinks,      \* the agent tables whose INSERTs succeed
    run,        \* one run_codex_exec invocation, timed: its timeout, child and outcome
    backend,    \* whether the selected backend answers: "responsive" or "silent"
    norm,       \* one call of the normalizer or of the stdout adapter on a text
    nanos,      \* the wall clock below the millisecond, in steps of 1/TicksPerMs ms
    lastAction  \* the last agent_execute_action call: its input and outcome

\* What the batch executor and agent_chat find around them and never change.
ambient == <<sinks, run, backend, norm, nanos, lastAction>>

vars == <<store, audits, sessions, emitted, pending, agent_events, now, chat, lastBatch,
          sinks, run, backend, norm, nanos, lastAction>>

(***************************************************************************)
(* Bounds of the model.                                                    *)
(***************************************************************************)
\* Longest action list handed to the batch executor or proposed by a provider.
MaxBatch == 2

(***************************************************************************)
(* serde_json values.                                                      *)
(***************************************************************************)
Str(s) == [t |-> "str", s |-> s]
Num(n) == [t |-> "num", n |-> n]
Bool(b) == [t |-> "bool", b |-> b]
Obj(f) == [t |-> "obj", f |-> f]
Arr(a) == [t |-> "arr", a |-> a]
JNull == [t |-> "null"]

\* Value::get(key): None (JNull here) on a non-object or an absent key.
Get(payload, key) ==
    IF payload.t = "obj" /\ key \in DOMAIN payload.f THEN payload.f[key] ELSE JNull

\* str::trim over the strings of the model: " " is the whitespace-only string.
Trim(s) == IF s = " " THEN "" ELSE s

\* get_required_str: the key must hold a string that is non-empty after trim.
get_required_str(payload, key) ==
    LET v == Get(payload, key) IN
    IF v.t = "str" /\ Trim(v.s) # ""
    THEN [ok |-> TRUE, val |-> v.s]
    ELSE [ok |-> FALSE, err |-> "Missing required field: " \o key]

\* get_optional_str: Some(s) (a Str) when present and non-blank, else None (JNull).
get_optional_str(payload, key) ==
    LET v == Get(payload, key) IN
    IF v.t = "str" /\ Trim(v.s) # "" THEN v ELSE JNull

\* Option::unwrap_or over the tagged values.
UnwrapOr(opt, dflt) == IF opt.t = "null" THEN dflt ELSE opt.s

\* `as i32` on an i64.  The progress values of the model lie in the i32
\* range (as every integer TLC represents does), where the cast changes nothing.
AsI32(n) == n

(***************************************************************************)
(* Action schema and validator.                                            *)
(***************************************************************************)
AllowedTypes ==
    { "todo.create", "todo.update", "todo.delete",
      "project.create", "project.update_progress", "project.delete",
      "event.create", "event.update", "event.delete",
      "personal.create", "personal.update", "personal.delete",
      "query.snapshot" }

\* A validator that looks into the payload of a todo.create.
validate_action_ChecksFields(action_type, payload) ==
    IF action_type \notin AllowedTypes
    THEN [ok |-> FALSE, err |-> "Action is not allowed: " \o action_type]
    ELSE IF payload.t # "obj"
    THEN [ok |-> FALSE, err |-> "Action payload must be an object"]
    ELSE IF action_type = "todo.create" /\ ~get_required_str(payload, "title").ok
    THEN [ok |-> FALSE, err |-> "Missing required field: title"]
    ELSE [ok |-> TRUE]

validate_action(action_type, payload) ==
    IF action_type \notin AllowedTypes
    THEN [ok |-> FALSE, err |-> "Action is not allowed: " \o action_type]
    ELSE IF payload.t # "obj"
    THEN [ok |-> FALSE, err |-> "Action payload must be an object"]
    ELSE [ok |-> TRUE]

(***************************************************************************)
(* The SQL statements of execute_action_with_transaction over one table,   *)
(* a function from primary key to row.                                     *)
(***************************************************************************)
\* INSERT: fails on a primary-key conflict (id TEXT PRIMARY KEY).
Insert(table, id, row) ==
    IF id \in DOMAIN table
    THEN [ok |-> FALSE, table |-> table]
    ELSE [ok |-> TRUE, table |-> (id :> row) @@ table]

\* UPDATE ... SET <the given columns> WHERE id = ?: no row matched is not an error.
Update(table, id, cols) ==
    IF id \in DOMAIN table
    THEN [table EXCEPT ![id] =
            [c \in DOMAIN table[id] |-> IF c \in DOMAIN cols THEN cols[c] ELSE table[id][c]]]
    ELSE table

\* DELETE ... WHERE id = ?: no row matched is not an error.
Delete(table, id) == [i \in (DOMAIN table) \ {id} |-> table[i]]

\* The columns an update branch binds: the optional fields that are present.
Present(fields) == [k \in {c \in DOMAIN fields : fields[c].t # "null"} |-> fields[k]]

\* payload.get("id").and_then(as_str).unwrap_or(timestamp_millis().to_string())
CreateId(payload, t) ==
    LET v == Get(payload, "id") IN IF v.t = "str" THEN v.s ELSE ToString(t)

ExecOk(msg, tx) == [ok |-> TRUE, msg |-> msg, tx |-> tx]
ExecErr(msg, tx) == [ok |-> FALSE, msg |-> msg, tx |-> tx]

(***************************************************************************)
(* execute_action_with_transaction: one action against the open            *)
(* transaction tx (the four tables as the transaction sees them); t is the *)
(* reading of the millisecond clock a create branch takes for its id.      *)
(* Every column value is stored as a Value (JNull for SQL NULL).           *)
(***************************************************************************)
TodoCreate(tx, p, t) ==
    LET title == get_required_str(p, "title")
        priority == UnwrapOr(get_optional_str(p, "priority"), "normal")
        ins == Insert(tx.todos, CreateId(p, t),
                      [title |-> Str(title.val), completed |-> Num(0),
                       priority |-> Str(priority)])
    IN  IF ~title.ok THEN ExecErr(title.err, tx)
        ELSE IF ~ins.ok
        THEN ExecErr("Failed to create todo: UNIQUE constraint failed: todos.id", tx)
        ELSE ExecOk("todo created", [tx EXCEPT !.todos = ins.table])

TodoUpdate(tx, p) ==
    LET id == get_required_str(p, "id")
        completed == Get(p, "completed")
        fields == [title |-> get_optional_str(p, "title"),
                   completed |-> IF completed.t = "bool"
                                 THEN Num(IF completed.b THEN 1 ELSE 0) ELSE JNull,
                   priority |-> get_optional_str(p, "priority")]
    IN  IF ~id.ok THEN ExecErr(id.err, tx)
        ELSE IF DOMAIN Present(fields) = {}
        THEN ExecErr("todo.update has no updatable field", tx)
        ELSE ExecOk("todo updated",
                    [tx EXCEPT !.todos = Update(tx.todos, id.val, Present(fields))])

TodoDelete(tx, p) ==
    LET id == get_required_str(p, "id") IN
    IF ~id.ok THEN ExecErr(id.err, tx)
    ELSE ExecOk("todo deleted", [tx EXCEPT !.todos = Delete(tx.todos, id.val)])

ProjectCreate(tx, p, t) ==
    LET title == get_required_str(p, "title")
        deadline == get_required_str(p, "deadline")
        ins == Insert(tx.projects, CreateId(p, t),
                      [title |-> Str(title.val), deadline |-> Str(deadline.val),
                       progress |-> Num(0), status |-> Str("active")])
    IN  IF ~title.ok THEN ExecErr(title.err, tx)
        ELSE IF ~deadline.ok THEN ExecErr(deadline.err, tx)
        ELSE IF ~ins.ok
        THEN ExecErr("Failed to create project: UNIQUE constraint failed: projects.id", tx)
        ELSE ExecOk("project created", [tx EXCEPT !.projects = ins.table])

ProjectUpdateProgress(tx, p) ==
    LET id == get_required_str(p, "id")
        progress == Get(p, "progress")
    IN  IF ~id.ok THEN ExecErr(id.err, tx)
        ELSE IF progress.t # "num"
        THEN ExecErr("project.update_progress has no progress", tx)
        ELSE ExecOk("project progress updated",
                    [tx EXCEPT !.projects =
                        Update(tx.projects, id.val, [progress |-> Num(AsI32(progress.n))])])

ProjectDelete(tx, p) ==
    LET id == get_required_str(p, "id") IN
    IF ~id.ok THEN ExecErr(id.err, tx)
    ELSE ExecOk("project deleted", [tx EXCEPT !.projects = Delete(tx.projects, id.val)])

EventCreate(tx, p, t) ==
    LET title == get_required_str(p, "title")
        date == get_required_str(p, "date")
        color == UnwrapOr(get_optional_str(p, "color"), "blue")
        ins == Insert(tx.events, CreateId(p, t),
                      [title |-> Str(title.val), date |-> Str(date.val),
                       color |-> Str(color), note |-> get_optional_str(p, "note")])
    IN  IF ~title.ok THEN ExecErr(title.err, tx)
        ELSE IF ~date.ok THEN ExecErr(date.err, tx)
        ELSE IF ~ins.ok
        THEN ExecErr("Failed to create event: UNIQUE constraint failed: events.id", tx)
        ELSE ExecOk("event created", [tx EXCEPT !.events = ins.table])

EventUpdate(tx, p) ==
    LET id == get_required_str(p, "id")
        fields == [title |-> get_optional_str(p, "title"),
                   date |-> get_optional_str(p, "date"),
                   color |-> get_optional_str(p, "color"),
                   note |-> get_optional_str(p, "note")]
    IN  IF ~id.ok THEN ExecErr(id.err, tx)
        ELSE IF DOMAIN Present(fields) = {}
        THEN ExecErr("event.update has no updatable field", tx)
        ELSE ExecOk("event updated",
                    [tx EXCEPT !.events = Update(tx.events, id.val, Present(fields))])

\* A delete branch that fails when no row has the id.
EventDelete_RequiresRow(tx, p) ==
    LET id == get_required_str(p, "id") IN
    IF ~id.ok THEN ExecErr(id.err, tx)
    ELSE IF id.val \notin DOMAIN tx.events THEN ExecErr("Failed to delete event: no row", tx)
    ELSE ExecOk("event deleted", [tx EXCEPT !.events = Delete(tx.events, id.val)])

EventDelete(tx, p) ==
    LET id == get_required_str(p, "id") IN
    IF ~id.ok THEN ExecErr(id.err, tx)
    ELSE ExecOk("event deleted", [tx EXCEPT !.events = Delete(tx.events, id.val)])

\* as_f64 on the budget key: Some only for a JSON number.
AsF64(v) == IF v.t = "num" THEN v ELSE JNull

PersonalCreate(tx, p, t) ==
    LET title == get_required_str(p, "title")
        ins == Insert(tx.personal_tasks, CreateId(p, t),
                      [title |-> Str(title.val), budget |-> AsF64(Get(p, "budget")),
                       date |-> get_optional_str(p, "date"),
                       location |-> get_optional_str(p, "location"),
                       note |-> get_optional_str(p, "note")])
    IN  IF ~title.ok THEN ExecErr(title.err, tx)
        ELSE IF ~ins.ok
        THEN ExecErr("Failed to create personal task: UNIQUE constraint failed: personal_tasks.id", tx)
        ELSE ExecOk("personal task created", [tx EXCEPT !.personal_tasks = ins.table])

PersonalUpdate(tx, p) ==
    LET id == get_required_str(p, "id")
        fields == [title |-> get_optional_str(p, "title"),
                   budget |-> AsF64(Get(p, "budget")),
                   date |-> get_optional_str(p, "date"),
                   location |-> get_optional_str(p, "location"),
                   note |-> get_optional_str(p, "note")]
    IN  IF ~id.ok THEN ExecErr(id.err, tx)
        ELSE IF DOMAIN Present(fields) = {}
        THEN ExecErr("personal.update has no updatable field", tx)
        ELSE ExecOk("personal task updated",
                    [tx EXCEPT !.personal_tasks =
                        Update(tx.personal_tasks, id.val, Present(fields))])

PersonalDelete(tx, p) ==
    LET id == get_required_str(p, "id") IN
    IF ~id.ok THEN ExecErr(id.err, tx)
    ELSE ExecOk("personal task deleted",
                [tx EXCEPT !.personal_tasks = Delete(tx.personal_tasks, id.val)])

execute_action_with_transaction(tx, action, t) ==
    LET p == action.payload IN
    CASE action.type = "todo.create" -> TodoCreate(tx, p, t)
      [] action.type = "todo.update" -> TodoUpdate(tx, p)
      [] action.type = "todo.delete" -> TodoDelete(tx, p)
      [] action.type = "project.create" -> ProjectCreate(tx, p, t)
      [] action.type = "project.update_progress" -> ProjectUpdateProgress(tx, p)
      [] action.type = "project.delete" -> ProjectDelete(tx, p)
      [] action.type = "event.create" -> EventCreate(tx, p, t)
      [] action.type = "event.update" -> EventUpdate(tx, p)
      [] action.type = "event.delete" -> EventDelete(tx, p)
      [] action.type = "personal.create" -> PersonalCreate(tx, p, t)
      [] action.type = "personal.update" -> PersonalUpdate(tx, p)
      [] action.type = "personal.delete" -> PersonalDelete(tx, p)
      [] action.type = "query.snapshot" -> ExecOk("snapshot generated", tx)
      [] OTHER -> ExecErr("Unsupported action type: " \o action.type, tx)

(***************************************************************************)
(* Stage events.  emit_agent_event builds the AgentStreamEvent, hands it   *)
(* to app.emit and spawns a detached task that persists it; a handler's    *)
(* operator returns the events it emits, in program order, and the action  *)
(* that runs the handler appends them to emitted and spawns their tasks.   *)
(***************************************************************************)
NoMeta == [none |-> TRUE]

AgentStreamEvent(request_id, stage, message, meta) ==
    [request_id |-> request_id, stage |-> stage, message |-> message, meta |-> meta]

\* The counters an executing event of the batch executor carries.
Counters(total, acc) ==
    [total |-> total, completed |-> acc.completed,
     success |-> acc.success, failed |-> acc.failed]

\* `if let Some(request_id) = &request.request_id { emit_agent_event(..) }`
EmitIfRequest(request, stage, message, meta) ==
    IF request.request_id.t = "str"
    THEN <<AgentStreamEvent(request.request_id.s, stage, message, meta)>>
    ELSE <<>>

(***************************************************************************)
(* agent_execute_actions_atomic.  st is the committed store, clk the clock *)
(* at entry, adv the set of loop positions before which the millisecond    *)
(* clock has advanced by one, and fault the transaction call the store     *)
(* fails ("none", "begin", "commit" or "rollback").                        *)
(* The outcome: ok/err (the Result), response (the AgentExecuteActions-    *)
(* Response of an Ok), store (the committed store afterwards), written     *)
(* (the records handed to persist_audit_records) and evs (events emitted). *)
(***************************************************************************)
NoResponse == [success |-> FALSE, batch_id |-> "", message |-> "", records |-> <<>>]

BatchErr(err, st, evs) ==
    [ok |-> FALSE, err |-> err, response |-> NoResponse,
     store |-> st, written |-> <<>>, evs |-> evs]

BatchOk(response, st, written, evs) ==
    [ok |-> TRUE, err |-> "", response |-> response,
     store |-> st, written |-> written, evs |-> evs]

TxFaults == {"none", "begin", "commit", "rollback"}

\* The clock reading at loop position i.
TimeAt(clk, adv, i) == clk + Cardinality({j \in adv : j <= i})

AuditRecord(batch_id, action, success, after_state, error) ==
    [batch_id |-> batch_id, action_id |-> action.id, action_type |-> action.type,
     payload |-> action.payload, before_state |-> JNull, after_state |-> after_state,
     success |-> success, error |-> error]

\* A failure arm that also persists the records of the rolled-back actions.
BatchFail_KeepsRolledBack(c, action, acc, error) ==
    LET failed == AuditRecord(c.batch_id, action, FALSE, JNull, Str(error)) IN
    IF c.fault = "rollback"
    THEN BatchErr("Failed to rollback transaction: database error", c.st, acc.evs)
    ELSE BatchOk([success |-> FALSE, batch_id |-> c.batch_id,
                  message |-> error, records |-> <<failed>>],
                 c.st, Append(acc.records, failed), acc.evs)

\* The Err arm of the loop body (lines 2248-2299): rollback, the two events,
\* the single failure record, persisted at once, and the success=false response.
BatchFail(c, action, acc, error) ==
    LET acc2 == [acc EXCEPT !.completed = @ + 1, !.failed = @ + 1]
        failed == AuditRecord(c.batch_id, action, FALSE, JNull, Str(error))
        evs == acc.evs
               \o EmitIfRequest(c.request, "executing", "action failed, transaction rolled back",
                      Counters(c.total, acc2)
                        @@ [actionType |-> action.type, actionId |-> action.id])
               \o EmitIfRequest(c.request, "error", "batch execution failed",
                      [reason |-> error, retryable |-> TRUE])
    IN  IF c.fault = "rollback"
        THEN BatchErr("Failed to rollback transaction: database error", c.st, acc.evs)
        ELSE BatchOk([success |-> FALSE, batch_id |-> c.batch_id,
                      message |-> error, records |-> <<failed>>],
                     c.st, <<failed>>, evs)

\* The Ok arm of the loop body (lines 2213-2247): count, record, event.
BatchStep(c, action, acc, result) ==
    LET acc2 == [acc EXCEPT !.completed = @ + 1, !.success = @ + 1] IN
    [acc2 EXCEPT
        !.tx = result.tx,
        !.records = Append(@, AuditRecord(c.batch_id, action, TRUE,
                                          [message |-> result.msg], JNull)),
        !.evs = @ \o EmitIfRequest(c.request, "executing", "action succeeded",
                        Counters(c.total, acc2)
                          @@ [actionType |-> action.type, actionId |-> action.id])]

\* A commit that keeps the records but not the transaction's writes.
BatchCommit_DropsWrites(c, acc) ==
    IF c.fault = "commit"
    THEN BatchErr("Failed to commit transaction: database error", c.st, acc.evs)
    ELSE BatchOk([success |-> TRUE, batch_id |-> c.batch_id,
                  message |-> "batch executed", records |-> acc.records],
                 c.st, acc.records, acc.evs)

\* A commit arm that persists the records before it commits.
BatchCommit_RecordsFirst(c, acc) ==
    IF c.fault = "commit"
    THEN [BatchErr("Failed to commit transaction: database error", c.st, acc.evs)
            EXCEPT !.written = acc.records]
    ELSE BatchOk([success |-> TRUE, batch_id |-> c.batch_id,
                  message |-> "batch executed", records |-> acc.records],
                 acc.tx, acc.records, acc.evs)

\* After the loop (lines 2303-2314): commit, persist the records, respond.
BatchCommit(c, acc) ==
    IF c.fault = "commit"
    THEN BatchErr("Failed to commit transaction: database error", c.st, acc.evs)
    ELSE BatchOk([success |-> TRUE, batch_id |-> c.batch_id,
                  message |-> "batch executed", records |-> acc.records],
                 acc.tx, acc.records, acc.evs)

RECURSIVE BatchLoop(_, _, _)
BatchLoop(c, i, acc) ==
    IF i > Len(c.request.actions) THEN BatchCommit(c, acc)
    ELSE
        LET action == c.request.actions[i]
            valid == validate_action(action.type, action.payload)
            result == execute_action_with_transaction(acc.tx, action,
                                                      TimeAt(c.clk, c.adv, i))
        IN  IF ~valid.ok THEN BatchErr(valid.err, c.st, acc.evs)
            ELSE IF result.ok THEN BatchLoop(c, i + 1, BatchStep(c, action, acc, result))
            ELSE BatchFail(c, action, acc, result.msg)

\* An executor that leaves out the actions flagged requiresApproval.
agent_execute_actions_atomic_AwaitsApproval(st, request, clk, adv, fault) ==
    LET held == [request EXCEPT !.actions = SelectSeq(@, LAMBDA a : ~a.requires_approval)]
        c == [st |-> st, request |-> held, clk |-> clk, adv |-> adv, fault |-> fault,
              batch_id |-> "batch-" \o ToString(clk), total |-> Len(held.actions)]
        acc0 == [tx |-> st, records |-> <<>>, completed |-> 0, success |-> 0, failed |-> 0,
                 evs |-> <<>>]
    IN  IF fault = "begin"
        THEN BatchErr("Failed to start transaction: database error", st, <<>>)
        ELSE BatchLoop(c, 1, acc0)

agent_execute_actions_atomic(st, request, clk, adv, fault) ==
    LET c == [st |-> st, request |-> request, clk |-> clk, adv |-> adv, fault |-> fault,
              batch_id |-> "batch-" \o ToString(clk), total |-> Len(request.actions)]
        acc0 == [tx |-> st, records |-> <<>>, completed |-> 0, success |-> 0, failed |-> 0,
                 evs |-> <<>>]
        start == [acc0 EXCEPT !.evs =
                    EmitIfRequest(request, "executing", "batch started",
                                  Counters(c.total, acc0))]
    IN  IF fault = "begin"
        THEN BatchErr("Failed to start transaction: database error", st, <<>>)
        ELSE BatchLoop(c, 1, start)

(***************************************************************************)
(* agent_execute_action: one action against the pool, without a            *)
(* transaction, an audit record or an event.  Its match (lines 1895-2166)  *)
(* has the branches of execute_action_with_transaction statement for       *)
(* statement, but for the create branches, which take the id from the      *)
(* clock alone and never read payload.id (lines 1899, 1963, 2004, 2072).   *)
(* The outcome: Ok({success: true, message}) or Err, and the store.        *)
(***************************************************************************)
\* The payload as a create branch of agent_execute_action reads it.
WithoutId(payload) ==
    IF payload.t = "obj"
    THEN Obj([k \in (DOMAIN payload.f) \ {"id"} |-> payload.f[k]])
    ELSE payload

CreateTypes == {"todo.create", "project.create", "event.create", "personal.create"}

\* A command that honours payload.id as the batch executor does.
agent_execute_action_TakesPayloadId(st, action, t) ==
    LET valid == validate_action(action.type, action.payload)
        result == execute_action_with_transaction(st, action, t)
    IN  IF ~valid.ok THEN [ok |-> FALSE, err |-> valid.err, store |-> st]
        ELSE IF ~result.ok THEN [ok |-> FALSE, err |-> result.msg, store |-> st]
        ELSE [ok |-> TRUE, err |-> "", store |-> result.tx]

agent_execute_action(st, action, t) ==
    LET valid == validate_action(action.type, action.payload)
        read == IF action.type \in CreateTypes
                THEN [action EXCEPT !.payload = WithoutId(@)] ELSE action
        result == execute_action_with_transaction(st, read, t)
    IN  IF ~valid.ok THEN [ok |-> FALSE, err |-> valid.err, store |-> st]
        ELSE IF ~result.ok THEN [ok |-> FALSE, err |-> result.msg, store |-> st]
        ELSE [ok |-> TRUE, err |-> "", store |-> result.tx]

\* No agent_execute_action call yet.
NoAction == [called |-> FALSE, action |-> JNull, before |-> JNull, clk |-> 0, out |-> JNull]

(***************************************************************************)
(* Text.  A str is a sequence of segments: a run of spaces (Ws), a line    *)
(* break (Nl), a word of prose without braces or backticks (Word), the     *)
(* opening fence of a json block (FenceJson: three backticks and "json"),  *)
(* a bare fence (Fence: three backticks), a brace (LBrace, RBrace), or the *)
(* compact JSON text of a value (Doc).  A backtick is written ' in the     *)
(* strings of the model, which cannot hold the character itself.  The      *)
(* documents of the model are objects or scalars and their strings hold no *)
(* braces or backticks, so that a '{' or '}' of a document is the first or *)
(* last character of its segment.                                          *)
(***************************************************************************)
Ws == [seg |-> "ws"]
Nl == [seg |-> "nl"]
Word(s) == [seg |-> "word", s |-> s]
FenceJson == [seg |-> "'''json"]
Fence == [seg |-> "'''"]
LBrace == [seg |-> "{"]
RBrace == [seg |-> "}"]
Doc(v) == [seg |-> "doc", v |-> v]

\* The element of a set of one element. Only({e(x) : x \in {v}}) is
\* "let x = v; e(x)": the binding is evaluated once, as a Rust let is.
Only(S) == CHOOSE x \in S : TRUE

Lowest(S) == CHOOSE x \in S : \A y \in S : x <= y
Highest(S) == CHOOSE x \in S : \A y \in S : x >= y

\* str::trim: without the leading and trailing whitespace.
IsSpace(x) == x.seg \in {"ws", "nl"}

TrimSegs(text) ==
    LET keep == {i \in 1..Len(text) : ~IsSpace(text[i])} IN
    IF keep = {} THEN <<>> ELSE SubSeq(text, Lowest(keep), Highest(keep))

\* The keys of the model's objects in the order of serde_json's Map (a
\* BTreeMap: sorted by key).
KeyOrder ==
    << "actions", "budget", "cmd", "completed", "date", "deadline", "id", "item",
       "note", "payload", "priority", "progress", "reason", "reply",
       "requiresApproval", "text", "title", "type" >>

RECURSIVE Concat(_)
Concat(strings) ==
    IF strings = <<>> THEN "" ELSE Head(strings) \o Concat(Tail(strings))

RECURSIVE Join(_)
Join(strings) ==
    IF Len(strings) <= 1 THEN Concat(strings)
    ELSE Head(strings) \o "," \o Join(Tail(strings))

\* Value::to_string: the compact JSON text of a value.
RECURSIVE to_string(_)
to_string(v) ==
    CASE v.t = "str" -> "\"" \o v.s \o "\""
      [] v.t = "num" -> ToString(v.n)
      [] v.t = "bool" -> (IF v.b THEN "true" ELSE "false")
      [] v.t = "null" -> "null"
      [] v.t = "arr" -> "[" \o Join([i \in 1..Len(v.a) |-> to_string(v.a[i])]) \o "]"
      [] v.t = "obj" ->
            LET keys == SelectSeq(KeyOrder, LAMBDA k : k \in DOMAIN v.f) IN
            "{" \o Join([i \in 1..Len(keys) |->
                            "\"" \o keys[i] \o "\":" \o to_string(v.f[keys[i]])]) \o "}"

\* The characters of a text, as the String a reply holds.
Chars(x) ==
    CASE x.seg = "ws" -> " "
      [] x.seg = "nl" -> "\n"
      [] x.seg = "word" -> x.s
      [] x.seg = "doc" -> to_string(x.v)
      [] OTHER -> x.seg

Text(text) == Concat([i \in 1..Len(text) |-> Chars(text[i])])

\* A JSON string that holds the characters of a text.
StrText(text) == [t |-> "str", s |-> Text(text), text |-> text]

\* The text a JSON string holds.
Lex(v) ==
    IF "text" \in DOMAIN v THEN v.text
    ELSE IF v.s = "" THEN <<>>
    ELSE IF v.s = " " THEN <<Ws>>
    ELSE <<Word(v.s)>>

HasOpen(x) == x.seg = "{" \/ (x.seg = "doc" /\ x.v.t = "obj")
HasClose(x) == x.seg = "}" \/ (x.seg = "doc" /\ x.v.t = "obj")
\* find("```json"), and find("```"), which the opening fence matches too.
IsFenceJson(x) == x.seg = FenceJson.seg
IsFence(x) == x.seg \in {Fence.seg, FenceJson.seg}

\* What slicing a str outside its bounds does.
SlicePanic == "panicked: begin <= end when slicing"

\* extract_json_block: the interior of the first fenced json block when it
\* is closed; else the span from the first '{' to the last '}'; else the
\* trimmed text.  content[start..=end] panics when the last '}' lies more
\* than one character before the first '{' (it is empty when they touch).
extract_json_block(content) ==
    LET opens == {i \in 1..Len(content) : IsFenceJson(content[i])}
        closes == IF opens = {} THEN {}
                  ELSE {i \in {i \in 1..Len(content) : IsFence(content[i])} : i > Lowest(opens)}
        starts == {i \in 1..Len(content) : HasOpen(content[i])}
        ends == {i \in 1..Len(content) : HasClose(content[i])}
    IN  IF opens # {} /\ closes # {}
        THEN [panic |-> FALSE,
              text |-> TrimSegs(SubSeq(content, Lowest(opens) + 1, Lowest(closes) - 1))]
        ELSE IF starts # {} /\ ends # {}
        THEN IF Lowest(starts) > Highest(ends) + 1
             THEN [panic |-> TRUE, text |-> <<>>]
             ELSE [panic |-> FALSE,
                   text |-> SubSeq(content, Lowest(starts), Highest(ends))]
        ELSE [panic |-> FALSE, text |-> TrimSegs(content)]

\* serde_json::from_str::<Value>: one JSON value with whitespace around it.
\* Of the texts of the model these are a single document and the braces of
\* an empty object.
from_str(text) ==
    Only({ IF Len(body) = 1 /\ body[1].seg = "doc"
           THEN [ok |-> TRUE, value |-> body[1].v]
           ELSE IF /\ Len(body) >= 2
                   /\ body[1].seg = "{" /\ body[Len(body)].seg = "}"
                   /\ \A i \in 2..(Len(body) - 1) : IsSpace(body[i])
           THEN [ok |-> TRUE, value |-> Obj(<<>>)]
           ELSE [ok |-> FALSE, value |-> JNull] :
           body \in {TrimSegs(text)} })

(***************************************************************************)
(* Response normalizer.                                                    *)
(***************************************************************************)
ProposalKeys == {"id", "type", "title", "reason", "payload", "requiresApproval"}

\* serde's Deserialize for AgentActionProposal (camelCase; no field is optional).
IsProposal(e) ==
    /\ e.t = "obj"
    /\ ProposalKeys \subseteq DOMAIN e.f
    /\ \A k \in {"id", "type", "title", "reason"} : e.f[k].t = "str"
    /\ e.f["requiresApproval"].t = "bool"

ToProposal(e) ==
    [id |-> e.f["id"].s, type |-> e.f["type"].s, title |-> e.f["title"].s,
     reason |-> e.f["reason"].s, payload |-> e.f["payload"],
     requires_approval |-> e.f["requiresApproval"].b]

\* A panic unwinds through every caller; here it travels as the failure
\* that carries SlicePanic.
Panicked(result) == ~result.ok /\ result.err = SlicePanic

\* parse_llm_response, were it to keep the well-formed elements of a list.
parse_llm_response_KeepsWellFormed(content) ==
    Only({ Only({
        LET value == parsed.value
            reply == Get(value, "reply")
            actions == IF value.t = "obj" /\ "actions" \in DOMAIN value.f
                       THEN value.f["actions"] ELSE Arr(<<>>)
            plain_reply == TrimSegs(content)
        IN
        IF normalized.panic
        THEN [ok |-> FALSE, err |-> SlicePanic]
        ELSE IF parsed.ok
        THEN IF actions.t = "arr"
             THEN LET kept == SelectSeq(actions.a, IsProposal) IN
                  [ok |-> TRUE,
                   response |-> [reply |-> IF reply.t = "str" THEN reply.s
                                           ELSE "suggestion generated",
                                 actions |-> [i \in 1..Len(kept) |-> ToProposal(kept[i])]]]
             ELSE [ok |-> FALSE, err |-> "LLM actions parse failed: invalid type"]
        ELSE IF plain_reply = <<>>
        THEN [ok |-> FALSE, err |-> "LLM returned empty content"]
        ELSE [ok |-> TRUE, response |-> [reply |-> Text(plain_reply), actions |-> <<>>]] :
        parsed \in {from_str(normalized.text)} }) :
        normalized \in {extract_json_block(content)} })

parse_llm_response(content) ==
    Only({ Only({
        LET value == parsed.value
            reply == Get(value, "reply")
            actions == IF value.t = "obj" /\ "actions" \in DOMAIN value.f
                       THEN value.f["actions"] ELSE Arr(<<>>)
            plain_reply == TrimSegs(content)
        IN
        IF normalized.panic
        THEN [ok |-> FALSE, err |-> SlicePanic]
        ELSE IF parsed.ok
        THEN IF actions.t = "arr" /\ \A i \in 1..Len(actions.a) : IsProposal(actions.a[i])
             THEN [ok |-> TRUE,
                   response |-> [reply |-> IF reply.t = "str" THEN reply.s
                                           ELSE "suggestion generated",
                                 actions |-> [i \in 1..Len(actions.a) |->
                                                ToProposal(actions.a[i])]]]
             ELSE [ok |-> FALSE, err |-> "LLM actions parse failed: invalid type"]
        ELSE IF plain_reply = <<>>
        THEN [ok |-> FALSE, err |-> "LLM returned empty content"]
        ELSE [ok |-> TRUE, response |-> [reply |-> Text(plain_reply), actions |-> <<>>]] :
        parsed \in {from_str(normalized.text)} }) :
        normalized \in {extract_json_block(content)} })

(***************************************************************************)
(* Remote providers: call_openai, call_anthropic, call_minimax.  http is   *)
(* what the HTTP exchange gives: a transport error, a non-success status,  *)
(* a body that is not JSON, a body without the content field, or content.  *)
(***************************************************************************)
RemoteProviders == {"openai", "anthropic", "minimax"}

ProviderLabel(provider) ==
    CASE provider = "openai" -> "OpenAI"
      [] provider = "anthropic" -> "Anthropic"
      [] provider = "minimax" -> "MiniMax"

\* The name of the content field the provider's body must carry.
ContentField(provider) == IF provider = "anthropic" THEN "text" ELSE "content"

\* One invocation of a backend: the HTTP request sent with a provider's
\* configuration, or one run of the codex executable.
Dispatch(b, credential) == [backend |-> b, credential |-> credential]

call_remote(provider, config, http) ==
    LET label == ProviderLabel(provider) IN
    IF Trim(config.api_key) = ""
    THEN [ok |-> FALSE, err |-> label \o " API key is empty", calls |-> <<>>]
    ELSE (CASE http.kind = "transport" ->
                [ok |-> FALSE, err |-> label \o " request failed: connection error"]
            [] http.kind = "status" ->
                [ok |-> FALSE, err |-> label \o " error 500: no body"]
            [] http.kind = "badjson" ->
                [ok |-> FALSE, err |-> label \o " parse failed: expected value"]
            [] http.kind = "nocontent" ->
                [ok |-> FALSE, err |-> label \o " response missing " \o ContentField(provider)]
            [] http.kind = "content" -> parse_llm_response(http.content))
         @@ [calls |-> <<Dispatch(provider, Trim(config.api_key))>>]

(***************************************************************************)
(* Local runtime adapter: call_codex_local.  env carries what the machine  *)
(* answers: binary (whether the executable resolves), probe_ok (the MCP    *)
(* probe), and exec, the outcomes of the first and of the reinforced       *)
(* invocation of run_codex_exec.                                           *)
(***************************************************************************)
resolve_codex_binary(path_override, found) ==
    IF path_override.t = "str"
    THEN IF found THEN [ok |-> TRUE, val |-> path_override.s]
         ELSE [ok |-> FALSE,
               err |-> "Configured codex binary path does not exist: " \o path_override.s]
    ELSE IF found THEN [ok |-> TRUE, val |-> "/usr/bin/codex"]
         ELSE [ok |-> FALSE, err |-> "codex was not found in PATH"]

\* `config.request_timeout_ms.max(1000)`: the floor of the exec deadline.
TimeoutFloorMs == 1000

Max(a, b) == IF a > b THEN a ELSE b

\* A deadline that takes the configured timeout as it is.
timeout_output_NoFloor(request_timeout_ms, child) ==
    IF child.finishes /\ child.after <= request_timeout_ms
    THEN [kind |-> "finished", waited |-> child.after]
    ELSE [kind |-> "timeout", waited |-> request_timeout_ms]

\* `timeout(duration, cmd.output()).await` (lines 3316-3318): the child
\* finishes after child.after milliseconds, or never; the caller gets the
\* output if it arrives within the deadline, else Elapsed at the deadline.
\* waited is how long the caller was blocked.
timeout_output(request_timeout_ms, child) ==
    LET duration == Max(request_timeout_ms, TimeoutFloorMs) IN
    IF child.finishes /\ child.after <= duration
    THEN [kind |-> "finished", waited |-> child.after]
    ELSE [kind |-> "timeout", waited |-> duration]

\* str::lines: the pieces between the line breaks.
RECURSIVE Lines(_)
Lines(text) ==
    LET breaks == {i \in 1..Len(text) : text[i].seg = "nl"} IN
    IF text = <<>> THEN <<>>
    ELSE IF breaks = {} THEN <<text>>
    ELSE <<SubSeq(text, 1, Lowest(breaks) - 1)>>
            \o Lines(SubSeq(text, Lowest(breaks) + 1, Len(text)))

\* One line of the scan of extract_codex_last_message: skipped, a payload
\* record (returns at once) or an agent_message item with a text.
ScanLine(line) ==
    Only({
    LET parsed == from_str(trimmed)
        value == parsed.value
        payload == Get(value, "payload")
        payload_reply == Get(payload, "reply")
        item == Get(value, "item")
        item_type == Get(item, "type")
    IN  IF trimmed = <<>> \/ ~HasOpen(trimmed[1]) \/ ~parsed.ok
        THEN [kind |-> "skip"]
        ELSE IF payload_reply.t = "str"
        THEN [kind |-> "payload",
              out |-> Obj([reply |-> payload_reply,
                           actions |-> IF payload.t = "obj" /\ "actions" \in DOMAIN payload.f
                                       THEN payload.f["actions"] ELSE Arr(<<>>)])]
        ELSE IF /\ item_type.t = "str" /\ item_type.s = "agent_message"
                /\ Get(item, "text").t = "str"
        THEN [kind |-> "message", text |-> Get(item, "text")]
        ELSE [kind |-> "skip"] :
    trimmed \in {TrimSegs(line)} })

RECURSIVE ScanFrom(_, _, _, _)
ScanFrom(stdout, lines, i, candidate) ==
    IF i > Len(lines)
    THEN IF candidate.t = "str" THEN Lex(candidate) ELSE stdout
    ELSE LET line == ScanLine(lines[i]) IN
         IF line.kind = "payload" THEN <<Doc(line.out)>>
         ELSE ScanFrom(stdout, lines, i + 1,
                       IF line.kind = "message" THEN line.text ELSE candidate)

\* The scan, were it to stop at the first record it recognizes.
RECURSIVE FirstRecord(_, _, _)
FirstRecord(stdout, lines, i) ==
    IF i > Len(lines) THEN stdout
    ELSE LET line == ScanLine(lines[i]) IN
         IF line.kind = "payload" THEN <<Doc(line.out)>>
         ELSE IF line.kind = "message" THEN Lex(line.text)
         ELSE FirstRecord(stdout, lines, i + 1)

extract_codex_last_message_FirstRecordWins(stdout) == FirstRecord(stdout, Lines(stdout), 1)

extract_codex_last_message(stdout) == ScanFrom(stdout, Lines(stdout), 1, JNull)

\* run_codex_exec: the outcome of one bounded subprocess invocation; the
\* content of an "ok" outcome is the stdout the subprocess wrote.
run_codex_exec(o) ==
    CASE o.kind = "timeout" -> [ok |-> FALSE, err |-> "Codex exec timed out"]
      [] o.kind = "spawn" -> [ok |-> FALSE, err |-> "Failed to run codex exec: os error"]
      [] o.kind = "exit" ->
            [ok |-> FALSE, err |-> "Codex exec failed (status 1): no stderr"]
      [] o.kind = "empty" -> [ok |-> FALSE, err |-> "Codex exec returned empty output"]
      [] o.kind = "ok" ->
            Only({ IF stdout = <<>>
                   THEN [ok |-> FALSE, err |-> "Codex exec returned empty output"]
                   ELSE [ok |-> TRUE, val |-> extract_codex_last_message(stdout)] :
                   stdout \in {TrimSegs(o.content)} })

\* The replies of the model's universe that is_generic_identity_reply matches
\* after trim and to_lowercase: one holding "gpt-5", one holding the codex
\* marker, and the fixed self-introduction.
GenericReplies ==
    { "I am GPT-5, a large language model", "an agent based on codex",
      "I am ZhaoXi Workbench Agent. Tell me your goal." }

is_generic_identity_reply(reply) == Trim(reply) \in GenericReplies

\* A provider outcome: the Result, the events emitted on the way and the
\* backend invocations made (calls).
ProviderErr(err, evs) ==
    [ok |-> FALSE, err |-> err, response |-> [reply |-> "", actions |-> <<>>],
     evs |-> evs, calls |-> <<>>]

ProviderOk(response, evs) ==
    [ok |-> TRUE, err |-> "", response |-> response, evs |-> evs, calls |-> <<>>]

Calling(r, calls) == [r EXCEPT !.calls = calls]

\* A Result of parse_llm_response or call_remote as a provider outcome.
Lift(r, evs) == IF r.ok THEN ProviderOk(r.response, evs) ELSE ProviderErr(r.err, evs)

\* An adapter that also re-invokes the executable when the first run fails.
call_codex_local_RetriesFailure(request_id, codex, env) ==
    LET binary == resolve_codex_binary(codex.binary_path, env.binary)
        content == run_codex_exec(env.exec[1])
        parsed == parse_llm_response(content.val)
        retry_content == run_codex_exec(env.exec[2])
        once == <<Dispatch("codex_local", binary.val)>>
        twice == once \o once
        again == IF ~retry_content.ok
                 THEN Calling(ProviderErr(retry_content.err, <<>>), twice)
                 ELSE Calling(Lift(parse_llm_response(retry_content.val), <<>>), twice)
    IN  IF ~codex.enabled THEN ProviderErr("Codex local runtime is disabled", <<>>)
        ELSE IF ~binary.ok THEN ProviderErr(binary.err, <<>>)
        ELSE IF ~content.ok THEN again
        ELSE IF ~parsed.ok THEN Calling(ProviderErr(parsed.err, <<>>), once)
        ELSE IF is_generic_identity_reply(parsed.response.reply)
                /\ parsed.response.actions = <<>>
        THEN again
        ELSE Calling(ProviderOk(parsed.response, <<>>), once)

call_codex_local_ProbeGates(request_id, codex, env) ==
    LET binary == resolve_codex_binary(codex.binary_path, env.binary)
        detect == <<AgentStreamEvent(request_id, "runtime_detect",
                        "codex local runtime detected", [binary |-> binary.val])>>
        connect == <<AgentStreamEvent(request_id, "mcp_connect",
                        "trying the Codex MCP channel", NoMeta)>>
        evs == detect \o (IF codex.prefer_mcp THEN connect ELSE <<>>)
               \o <<AgentStreamEvent(request_id, "planning",
                        "generating the plan through Codex", NoMeta)>>
        content == run_codex_exec(env.exec[1])
        parsed == parse_llm_response(content.val)
        once == <<Dispatch("codex_local", binary.val)>>
    IN  IF ~codex.enabled THEN ProviderErr("Codex local runtime is disabled", <<>>)
        ELSE IF ~binary.ok THEN ProviderErr(binary.err, <<>>)
        ELSE IF codex.prefer_mcp /\ ~env.probe_ok
        THEN ProviderErr("Codex probe timed out", detect \o connect)
        ELSE IF ~content.ok THEN Calling(ProviderErr(content.err, evs), once)
        ELSE IF ~parsed.ok THEN Calling(ProviderErr(parsed.err, evs), once)
        ELSE Calling(ProviderOk(parsed.response, evs), once)

call_codex_local(request_id, codex, env) ==
    LET binary == resolve_codex_binary(codex.binary_path, env.binary)
        detect == <<AgentStreamEvent(request_id, "runtime_detect",
                        "codex local runtime detected", [binary |-> binary.val])>>
        probe == IF codex.prefer_mcp
                 THEN <<AgentStreamEvent(request_id, "mcp_connect",
                            "trying the Codex MCP channel", NoMeta)>>
                      \o (IF env.probe_ok THEN <<>>
                          ELSE <<AgentStreamEvent(request_id, "exec_fallback",
                                     "MCP channel unavailable, falling back to exec",
                                     [reason |-> "Codex probe timed out"])>>)
                 ELSE <<>>
        evs == detect \o probe
               \o <<AgentStreamEvent(request_id, "planning",
                        "generating the plan through Codex", NoMeta)>>
        content == run_codex_exec(env.exec[1])
        parsed == parse_llm_response(content.val)
        retry_content == run_codex_exec(env.exec[2])
        once == <<Dispatch("codex_local", binary.val)>>
        twice == once \o once
    IN  IF ~codex.enabled THEN ProviderErr("Codex local runtime is disabled", <<>>)
        ELSE IF ~binary.ok THEN ProviderErr(binary.err, <<>>)
        ELSE IF ~content.ok THEN Calling(ProviderErr(content.err, evs), once)
        ELSE IF ~parsed.ok THEN Calling(ProviderErr(parsed.err, evs), once)
        ELSE IF is_generic_identity_reply(parsed.response.reply)
                /\ parsed.response.actions = <<>>
        THEN IF ~retry_content.ok
             THEN Calling(ProviderErr(retry_content.err, evs), twice)
             ELSE Calling(Lift(parse_llm_response(retry_content.val), evs), twice)
        ELSE Calling(ProviderOk(parsed.response, evs), once)

\* A router that, when the selected remote provider fails, tries the next one.
call_provider_FailsOver(request_id, request, env) ==
    LET provider == request.settings.provider
        next == IF provider = "openai" THEN "anthropic" ELSE "openai"
        first == call_remote(provider, request.settings[provider], env.http)
        second == call_remote(next, request.settings[next], env.http)
    IN  IF provider \in RemoteProviders
        THEN IF first.ok THEN Calling(Lift(first, <<>>), first.calls)
             ELSE Calling(Lift(second, <<>>), first.calls \o second.calls)
        ELSE IF provider = "codex_local"
        THEN call_codex_local(request_id, request.settings.codex, env)
        ELSE ProviderErr("Unsupported provider: " \o provider, <<>>)

call_provider(request_id, request, env) ==
    LET provider == request.settings.provider
        remote == call_remote(provider, request.settings[provider], env.http)
    IN
    IF provider \in RemoteProviders
    THEN Calling(Lift(remote, <<>>), remote.calls)
    ELSE IF provider = "codex_local"
    THEN call_codex_local(request_id, request.settings.codex, env)
    ELSE ProviderErr("Unsupported provider: " \o provider, <<>>)

(***************************************************************************)
(* build_context_snapshot and local_fallback_response.                     *)
(***************************************************************************)
Today == "2025-06-01"

Min(a, b) == IF a < b THEN a ELSE b

\* The two lists the fallback reads, by length (LIMIT 8 and LIMIT 10).
build_context_snapshot(st) ==
    [pendingTodos |->
        Min(8, Cardinality({i \in DOMAIN st.todos : st.todos[i].completed = Num(0)})),
     todayEvents |->
        Min(10, Cardinality({i \in DOMAIN st.events : st.events[i].date = Str(Today)}))]

\* messages.iter().rev().find(|m| m.role == "user"): Some(content) or None.
LatestUser(messages) ==
    LET idx == {i \in 1..Len(messages) : messages[i].role = "user"} IN
    IF idx = {} THEN JNull
    ELSE Str(messages[CHOOSE i \in idx : \A j \in idx : j <= i].content)

\* A fallback that proposes the snapshot without telling why it fell back.
local_fallback_response_NoReason(messages, snapshot, error, t) ==
    [reply |-> "I have read the workbench data.",
     actions |-> << [id |-> "snapshot-" \o ToString(t), type |-> "query.snapshot",
                     title |-> "generate the current snapshot",
                     reason |-> "for further planning and action confirmation",
                     payload |-> Obj(<<>>), requires_approval |-> TRUE] >>]

local_fallback_response(messages, snapshot, error, t) ==
    LET latest_user == UnwrapOr(LatestUser(messages),
                                "give advice from the current workbench data")
        head == "I have read the workbench data. You just said '" \o latest_user
                \o "'. Pending todos: " \o ToString(snapshot.pendingTodos)
                \o ", events today: " \o ToString(snapshot.todayEvents) \o "."
    IN  [reply |-> IF error.t = "str"
                   THEN head \o " Model service unavailable (" \o error.s
                        \o "), switched to local suggestions."
                   ELSE head,
         actions |-> << [id |-> "snapshot-" \o ToString(t), type |-> "query.snapshot",
                         title |-> "generate the current snapshot",
                         reason |-> "for further planning and action confirmation",
                         payload |-> Obj(<<>>), requires_approval |-> TRUE] >>]

(***************************************************************************)
(* The persistence sinks.  persist_agent_session and persist_audit_records *)
(* are awaited by their callers; persist_agent_event runs in the detached  *)
(* task emit_agent_event spawns.                                           *)
(***************************************************************************)
AllSinks == {"agent_events", "agent_sessions", "agent_action_audits"}

\* `let _ = sqlx::query("INSERT ..").execute(pool).await;`: the table after
\* the INSERTs of rows, which a failing store leaves as it was; the caller
\* is told nothing either way.
BestEffortInsert(table, rows, sink) ==
    IF sink \in sinks THEN table \o rows ELSE table

SessionRow(request_id, provider, messages, reply) ==
    [request_id |-> request_id, provider |-> provider,
     user_message |-> LatestUser(messages), reply |-> reply]

\* emit_agent_event for each event of evs: app.emit, then tokio::spawn of its task.
Emit(evs) ==
    /\ emitted' = emitted \o evs
    /\ pending' = pending \cup ((Len(emitted) + 1)..(Len(emitted) + Len(evs)))

\* persist_agent_event, run by one detached task: the INSERT into agent_events.
PersistEvent(i) ==
    /\ i \in pending
    /\ pending' = pending \ {i}
    /\ agent_events' = BestEffortInsert(agent_events, <<i>>, "agent_events")
    /\ UNCHANGED <<store, audits, sessions, emitted, now, chat, lastBatch, ambient>>

(***************************************************************************)
(* agent_execute_actions_atomic called as a command.                       *)
(***************************************************************************)
\* The loop positions at which a create branch reads the clock for its id.
ClockReads(actions) ==
    {i \in 1..Len(actions) :
        /\ actions[i].type \in {"todo.create", "project.create",
                                "event.create", "personal.create"}
        /\ Get(actions[i].payload, "id").t # "str"}

\* What is kept of a call for the properties: its inputs (the request, the
\* committed store and the audit table at entry, the clock and store answers)
\* and its outcome.
BatchRecord(request, adv, fault, out) ==
    [called |-> TRUE, request |-> request, before |-> store,
     audits_before |-> Len(audits), clk |-> now, adv |-> adv, fault |-> fault,
     out |-> out]

\* No command has been invoked yet: a behaviour is one command from Init.
Quiet == ~lastBatch.called /\ \A r \in DOMAIN chat : chat[r].pc = "idle"

\* A command that reports a failed audit write to its caller.
ExecuteBatch_ReportsWriteFailure(request, adv, fault) ==
    LET out == agent_execute_actions_atomic(store, request, now, adv, fault)
        lost == out.written # <<>> /\ "agent_action_audits" \notin sinks
    IN  /\ store' = out.store
        /\ audits' = BestEffortInsert(audits, out.written, "agent_action_audits")
        /\ Emit(out.evs)
        /\ now' = now + Cardinality(adv)
        /\ lastBatch' = BatchRecord(request, adv, fault,
                IF lost THEN BatchErr("Failed to persist audit records", out.store, out.evs)
                ELSE out)
        /\ UNCHANGED <<sessions, agent_events, chat, ambient>>

ExecuteBatch(request, adv, fault) ==
    LET out == agent_execute_actions_atomic(store, request, now, adv, fault) IN
    /\ store' = out.store
    /\ audits' = BestEffortInsert(audits, out.written, "agent_action_audits")
    /\ Emit(out.evs)
    /\ now' = now + Cardinality(adv)
    /\ lastBatch' = BatchRecord(request, adv, fault, out)
    /\ UNCHANGED <<sessions, agent_events, chat, ambient>>

(***************************************************************************)
(* agent_chat, one request slot r per call in flight.  Its steps: the      *)
(* snapshot and the first event (ChatStart), call_provider (ChatProvider), *)
(* then the Ok arm (ChatOk) or the Err arm (ChatFallback) of the match.    *)
(***************************************************************************)
IdleChat ==
    [pc |-> "idle", request |-> JNull, request_id |-> "", snapshot |-> JNull,
     store0 |-> JNull, env |-> JNull, result |-> JNull, path |-> "none", ret |-> JNull]

ChatRet(ok, err, response) == [ok |-> ok, err |-> err, response |-> response]

ChatStart(r, request, snapshot_ok) ==
    LET request_id == IF request.request_id.t = "str" THEN request.request_id.s
                      ELSE "req-" \o ToString(now)
    IN  /\ chat[r].pc = "idle"
        /\ IF snapshot_ok
           THEN /\ chat' = [chat EXCEPT ![r] =
                      [@ EXCEPT !.pc = "provider", !.request = request,
                                !.request_id = request_id, !.store0 = store,
                                !.snapshot = build_context_snapshot(store)]]
                /\ Emit(<<AgentStreamEvent(request_id, "runtime_detect",
                              "selecting the agent runtime", NoMeta)>>)
           ELSE /\ chat' = [chat EXCEPT ![r] =
                      [@ EXCEPT !.pc = "done", !.request = request, !.store0 = store,
                                !.path = "snapshot_err",
                                !.ret = ChatRet(FALSE,
                                    "Failed to fetch todos snapshot: database error",
                                    JNull)]]
                /\ UNCHANGED <<emitted, pending>>
        /\ UNCHANGED <<store, audits, sessions, agent_events, now, lastBatch, ambient>>

\* Whether call_provider's awaits resolve on what the backend does.  A
\* silent backend never answers: the send() of a remote call (no timeout is
\* set on the reqwest client) then never resolves, while every codex
\* subprocess runs into the deadline of its tokio timeout.
Answers(request, env) ==
    backend = "silent" =>
        IF request.settings.provider \in RemoteProviders
        THEN Trim(request.settings[request.settings.provider].api_key) = ""
        ELSE IF request.settings.provider = "codex_local"
        THEN /\ ~env.probe_ok
             /\ env.exec[1].kind = "timeout" /\ env.exec[2].kind = "timeout"
        ELSE TRUE

ChatProvider(r, env) ==
    LET result == call_provider(chat[r].request_id, chat[r].request, env) IN
    /\ chat[r].pc = "provider"
    /\ Answers(chat[r].request, env)
    /\ chat' = [chat EXCEPT ![r] =
            [@ EXCEPT !.pc = IF Panicked(result) THEN "panicked"
                             ELSE IF result.ok THEN "ok" ELSE "err",
                      !.env = env, !.result = result]]
    /\ Emit(result.evs)
    /\ UNCHANGED <<store, audits, sessions, agent_events, now, lastBatch, ambient>>

\* A fold that rewrites the reply and leaves the executed actions in place.
FoldExecution_KeepsActions(response, reply) ==
    [reply |-> reply, actions |-> response.actions]

\* `response.reply = format!(..); response.actions = vec![];` (lines 1839-1852)
FoldExecution(response, reply) == [reply |-> reply, actions |-> <<>>]

\* The reply after auto-execution (lines 1839-1851).
ExecutionReply(response, execution) ==
    IF execution.response.success
    THEN response.reply \o "\n\nauto-executed "
         \o ToString(Len(execution.response.records))
         \o " actions (batch: " \o execution.response.batch_id \o ")."
    ELSE response.reply \o "\n\nauto-execution failed (batch: "
         \o execution.response.batch_id \o "): "
         \o execution.response.message

\* The Ok arm (lines 1821-1864).
ChatOk(r, adv, fault) ==
    LET c == chat[r]
        response == c.result.response
        batch_request == [request_id |-> Str(c.request_id), actions |-> response.actions]
        execution == agent_execute_actions_atomic(store, batch_request, now, adv, fault)
        reply == ExecutionReply(response, execution)
        final == IF response.actions = <<>> THEN response
                 ELSE FoldExecution(response, reply)
        announce == <<AgentStreamEvent(c.request_id, "executing",
                          "actions generated, executing automatically",
                          [count |-> Len(response.actions)])>>
        completed == <<AgentStreamEvent(c.request_id, "completed", "completed", NoMeta)>>
    IN  /\ c.pc = "ok"
        /\ IF response.actions = <<>>
           THEN /\ adv = {} /\ fault = "none"
                /\ sessions' = BestEffortInsert(sessions,
                        <<SessionRow(c.request_id, c.request.settings.provider,
                                     c.request.messages, final.reply)>>,
                        "agent_sessions")
                /\ Emit(completed)
                /\ chat' = [chat EXCEPT ![r] =
                        [@ EXCEPT !.pc = "done", !.path = "provider",
                                  !.ret = ChatRet(TRUE, "", final)]]
                /\ UNCHANGED <<store, audits, now, lastBatch>>
           ELSE /\ adv \subseteq ClockReads(response.actions)
                /\ store' = execution.store
                /\ audits' = BestEffortInsert(audits, execution.written,
                                              "agent_action_audits")
                /\ now' = now + Cardinality(adv)
                /\ lastBatch' = BatchRecord(batch_request, adv, fault, execution)
                /\ IF execution.ok
                   THEN /\ sessions' = BestEffortInsert(sessions,
                                <<SessionRow(c.request_id, c.request.settings.provider,
                                             c.request.messages, final.reply)>>,
                                "agent_sessions")
                        /\ Emit(announce \o execution.evs \o completed)
                        /\ chat' = [chat EXCEPT ![r] =
                                [@ EXCEPT !.pc = "done", !.path = "provider",
                                          !.ret = ChatRet(TRUE, "", final)]]
                   ELSE /\ sessions' = sessions
                        /\ Emit(announce \o execution.evs)
                        /\ chat' = [chat EXCEPT ![r] =
                                [@ EXCEPT !.pc = "done", !.path = "exec_err",
                                          !.ret = ChatRet(FALSE, execution.err, JNull)]]
        /\ UNCHANGED <<agent_events, ambient>>

\* The Err arm (lines 1865-1884).
ChatFallback(r) ==
    LET c == chat[r]
        error == c.result.err
        response == local_fallback_response(c.request.messages, c.snapshot,
                                            Str(error), now)
    IN  /\ c.pc = "err"
        /\ Emit(<< AgentStreamEvent(c.request_id, "error",
                       "model service call failed, degrading",
                       [reason |-> error, retryable |-> TRUE]),
                   AgentStreamEvent(c.request_id, "fallback",
                       "switched to local suggestion mode", NoMeta),
                   AgentStreamEvent(c.request_id, "completed",
                       "completed (fallback)", NoMeta) >>)
        /\ sessions' = BestEffortInsert(sessions,
                <<SessionRow(c.request_id, c.request.settings.provider,
                             c.request.messages, response.reply)>>,
                "agent_sessions")
        /\ chat' = [chat EXCEPT ![r] =
                [@ EXCEPT !.pc = "done", !.path = "fallback",
                          !.ret = ChatRet(TRUE, "", response)]]
        /\ UNCHANGED <<store, audits, agent_events, now, lastBatch, ambient>>

(***************************************************************************)
(* The inputs the commands are given, and the answers of the environment.  *)
(***************************************************************************)
Action(id, type, payload) ==
    [id |-> id, type |-> type, title |-> "title", reason |-> "reason",
     payload |-> payload, requires_approval |-> FALSE]

\* Actions a caller hands to the batch executor: every executor branch, a
\* primary-key conflict, a missing field, a type outside the vocabulary and
\* a payload that is not an object.
ActionPool ==
    { Action("a1", "todo.create", Obj([title |-> Str("buy milk")])),
      Action("a2", "todo.create", Obj([id |-> Str("1"), title |-> Str("dup")])),
      Action("a3", "todo.create", Obj([title |-> Str(" ")])),
      Action("a4", "todo.update", Obj([id |-> Str("1"), completed |-> Bool(TRUE)])),
      Action("a5", "todo.delete", Obj([id |-> Str("2")])),
      Action("a6", "project.create",
             Obj([id |-> Str("7"), title |-> Str("thesis"), deadline |-> Str("2025-12-31")])),
      Action("a7", "project.update_progress", Obj([id |-> Str("7"), progress |-> Num(50)])),
      Action("a8", "project.delete", Obj([id |-> Str("1")])),
      Action("a9", "event.create", Obj([title |-> Str("standup"), date |-> Str(Today)])),
      Action("a10", "event.update", Obj([id |-> Str("1"), note |-> Str("room 2")])),
      Action("a11", "event.delete", Obj([id |-> Str("9")])),
      Action("a12", "personal.create", Obj([title |-> Str("gift"), budget |-> Num(10)])),
      Action("a13", "personal.update", Obj([id |-> Str("1")])),
      Action("a14", "personal.delete", Obj([id |-> Str("1")])),
      Action("a15", "query.snapshot", Obj(<<>>)),
      Action("a16", "shell.exec", Obj([cmd |-> Str("ls")])),
      Action("a17", "todo.delete", Str("1")) }

\* Actions a provider proposes in its reply.
ChatPool ==
    { [Action("p1", "todo.create", Obj([title |-> Str("buy milk")]))
          EXCEPT !.requires_approval = TRUE],
      Action("p2", "event.create", Obj([title |-> Str("standup")])),
      Action("p3", "shell.exec", Obj([cmd |-> Str("ls")])),
      Action("p4", "todo.delete", Str("1")),
      Action("p5", "todo.delete", Obj([id |-> Str("2")])) }

\* The sequences over S of length lo..hi.
SeqsOf(S, lo, hi) == UNION {[1..n -> S] : n \in lo..hi}

BatchRequests ==
    {[request_id |-> rid, actions |-> actions] :
        rid \in {JNull, Str("req-b")}, actions \in SeqsOf(ActionPool, 0, MaxBatch)}

\* An AgentActionProposal as the JSON object a provider writes.
ProposalValue(a) ==
    Obj([id |-> Str(a.id), type |-> Str(a.type), title |-> Str(a.title),
         reason |-> Str(a.reason), payload |-> a.payload,
         requiresApproval |-> Bool(a.requires_approval)])

Json(value) == <<Doc(value)>>

\* Model outputs: empty, blank, prose, prose with a closing brace before an
\* opening one, JSON without actions, a generic
\* self-introduction, JSON without a reply, malformed actions (not an array;
\* an element without requiresApproval, alone and after a well-formed
\* one), and JSON proposing actions.
Contents ==
    { <<>>, <<Ws>>, <<Word("plain advice")>>, <<RBrace, Word("plain advice"), LBrace>>,
      Json(Obj([reply |-> Str("ok"), actions |-> Arr(<<>>)])),
      Json(Obj([reply |-> Str("I am GPT-5, a large language model")])),
      Json(Obj([actions |-> Arr(<<>>)])),
      Json(Obj([reply |-> Str("ok"), actions |-> Str("none")])),
      Json(Obj([reply |-> Str("ok"),
                actions |-> Arr(<<Obj([id |-> Str("p0"), type |-> Str("todo.create")])>>)])),
      Json(Obj([reply |-> Str("ok"),
                actions |-> Arr(<< ProposalValue(Action("p5", "todo.delete",
                                                        Obj([id |-> Str("2")]))),
                                   Obj([id |-> Str("p0"), type |-> Str("todo.create")]) >>)])) }
    \cup { Json(Obj([reply |-> Str("planned"),
                     actions |-> Arr([i \in 1..Len(b) |-> ProposalValue(b[i])])])) :
             b \in SeqsOf(ChatPool, 1, MaxBatch) }

HttpOutcomes ==
    { [kind |-> "transport"], [kind |-> "status"], [kind |-> "badjson"],
      [kind |-> "nocontent"] }
    \cup { [kind |-> "content", content |-> c] : c \in Contents }

ExecOutcomes ==
    { [kind |-> "timeout"], [kind |-> "spawn"], [kind |-> "exit"], [kind |-> "empty"] }
    \cup { [kind |-> "ok", content |-> c] : c \in Contents }

\* What the reinforced invocation answers: a timeout, a usable reply, a
\* generic reply again, malformed actions, prose that closes a brace
\* before it opens one.
RetryOutcomes ==
    { [kind |-> "timeout"],
      [kind |-> "ok", content |-> Json(Obj([reply |-> Str("ok"), actions |-> Arr(<<>>)]))],
      [kind |-> "ok",
       content |-> Json(Obj([reply |-> Str("I am GPT-5, a large language model")]))],
      [kind |-> "ok", content |-> Json(Obj([reply |-> Str("ok"), actions |-> Str("none")]))],
      [kind |-> "ok", content |-> <<RBrace, Word("plain advice"), LBrace>>] }

NoHttp == [kind |-> "transport"]
NoExec == << [kind |-> "timeout"], [kind |-> "timeout"] >>

\* The answers that matter to the provider the request selects.
Envs(request) ==
    IF request.settings.provider \in RemoteProviders
    THEN {[http |-> h, binary |-> TRUE, probe_ok |-> TRUE, exec |-> NoExec] :
            h \in HttpOutcomes}
    ELSE IF request.settings.provider = "codex_local"
    THEN {[http |-> NoHttp, binary |-> b, probe_ok |-> p, exec |-> <<e1, e2>>] :
            b \in BOOLEAN, p \in BOOLEAN, e1 \in ExecOutcomes, e2 \in RetryOutcomes}
    ELSE {[http |-> NoHttp, binary |-> TRUE, probe_ok |-> TRUE, exec |-> NoExec]}

DefaultCodex == [enabled |-> TRUE, binary_path |-> JNull, prefer_mcp |-> TRUE]

Settings(provider, api_key, codex) ==
    [provider |-> provider,
     openai |-> [api_key |-> IF provider = "openai" THEN api_key ELSE "sk-openai"],
     anthropic |-> [api_key |-> IF provider = "anthropic" THEN api_key ELSE "sk-ant"],
     minimax |-> [api_key |-> IF provider = "minimax" THEN api_key ELSE "sk-mm"],
     codex |-> codex]

ChatSettings ==
    { Settings(p, k, DefaultCodex) : p \in RemoteProviders, k \in {"", "sk-live"} }
    \cup { Settings("codex_local", "", c) :
             c \in { DefaultCodex,
                     [DefaultCodex EXCEPT !.enabled = FALSE],
                     [DefaultCodex EXCEPT !.prefer_mcp = FALSE],
                     [DefaultCodex EXCEPT !.binary_path = Str("/opt/codex")] } }
    \cup { Settings("gemini", "sk-live", DefaultCodex) }

MessageLists ==
    { << [role |-> "user", content |-> "plan my day"],
         [role |-> "assistant", content |-> "sure"],
         [role |-> "user", content |-> "add milk"] >>,
      << [role |-> "system", content |-> "be brief"] >> }

ChatRequests ==
    {[request_id |-> rid, messages |-> m, settings |-> s] :
        rid \in {JNull, Str("req-1")}, m \in MessageLists, s \in ChatSettings}

(***************************************************************************)
(* The initial state: the rows insert_default_data writes into an empty    *)
(* database (two todos, one project) and one event and one personal task   *)
(* of an earlier session; the agent tables empty; no call in flight.       *)
(***************************************************************************)
InitStore ==
    [todos |-> ("1" :> [title |-> Str("sell the ps"), completed |-> Num(0),
                        priority |-> Str("normal")])
            @@ ("2" :> [title |-> Str("sort the food bill"), completed |-> Num(1),
                        priority |-> Str("urgent")]),
     projects |-> ("1" :> [title |-> Str("file the records"),
                           deadline |-> Str("2025-12-31"),
                           progress |-> Num(20), status |-> Str("active")]),
     events |-> ("1" :> [title |-> Str("dentist"), date |-> Str(Today),
                         color |-> Str("blue"), note |-> JNull]),
     personal_tasks |-> ("1" :> [title |-> Str("passport"), budget |-> JNull,
                                 date |-> JNull, location |-> JNull, note |-> JNull])]

Slots == {"s1", "s2"}

\* No timed invocation under way.
IdleRun ==
    [pc |-> "idle", request_timeout_ms |-> 0, child |-> [finishes |-> FALSE, after |-> 0],
     result |-> [kind |-> "none", waited |-> 0]]

IdleNorm ==
    [pc |-> "idle", fn |-> "none", content |-> <<>>, result |-> [ok |-> FALSE, err |-> ""]]

StartMs == 1000

Init ==
    /\ store = InitStore
    /\ audits = <<>>
    /\ sessions = <<>>
    /\ emitted = <<>>
    /\ pending = {}
    /\ agent_events = <<>>
    /\ now = StartMs
    /\ chat = [r \in Slots |-> IdleChat]
    /\ sinks = AllSinks
    /\ run = IdleRun
    /\ norm = IdleNorm
    /\ backend = "responsive"
    /\ nanos = 0
    /\ lastAction = NoAction
    /\ lastBatch = [called |-> FALSE, request |-> JNull, before |-> JNull,
                    audits_before |-> 0, clk |-> 0, adv |-> {}, fault |-> "none",
                    out |-> JNull]

(***************************************************************************)
(* Spec: one command, agent_execute_actions_atomic or agent_chat, invoked  *)
(* on the initial store with any input; the detached event tasks are left  *)
(* pending (SpecEvents runs them).                                         *)
(***************************************************************************)
CallBatch ==
    /\ Quiet
    /\ \E request \in BatchRequests, fault \in TxFaults :
            \E adv \in SUBSET ClockReads(request.actions) :
                ExecuteBatch(request, adv, fault)

CallChat ==
    /\ Quiet
    /\ \E request \in ChatRequests, snapshot_ok \in BOOLEAN :
            ChatStart("s1", request, snapshot_ok)

Provider ==
    /\ chat["s1"].pc = "provider"
    /\ \E env \in Envs(chat["s1"].request) : ChatProvider("s1", env)

OkArm ==
    /\ chat["s1"].pc = "ok"
    /\ \E fault \in TxFaults, adv \in SUBSET (1..MaxBatch) : ChatOk("s1", adv, fault)

ErrArm == ChatFallback("s1")

Next == CallBatch \/ CallChat \/ Provider \/ OkArm \/ ErrArm

Spec == Init /\ [][Next]_vars

(***************************************************************************)
(* SpecEvents: two agent_chat calls in flight at once, each with its own   *)
(* request id, one with an empty credential (the fallback path) and one    *)
(* answered in prose (the provider path), and the detached                 *)
(* persist_agent_event tasks, run in any order.                            *)
(***************************************************************************)
StreamRequests(r) ==
    {[request_id |-> Str("req-" \o r),
      messages |-> << [role |-> "user", content |-> "plan my day"] >>,
      settings |-> Settings("openai", IF r = "s1" THEN "" ELSE "sk-live", DefaultCodex)]}

StreamEnvs ==
    {[http |-> [kind |-> "content",
                content |-> <<Word("plain advice")>>],
      binary |-> TRUE, probe_ok |-> TRUE, exec |-> NoExec]}

StreamStart ==
    \E r \in Slots : \E request \in StreamRequests(r) : ChatStart(r, request, TRUE)

StreamProvider ==
    \E r \in Slots :
        /\ chat[r].pc = "provider"
        /\ \E env \in StreamEnvs : ChatProvider(r, env)

StreamOk == \E r \in Slots : chat[r].pc = "ok" /\ ChatOk(r, {}, "none")

StreamErr == \E r \in Slots : ChatFallback(r)

Persist == \E i \in pending : PersistEvent(i)

NextEvents == StreamStart \/ StreamProvider \/ StreamOk \/ StreamErr \/ Persist

SpecEvents == Init /\ [][NextEvents]_vars
(***************************************************************************)
(* The last call of the batch executor, replayed: which of its actions     *)
(* fail, and what a successful action is expected to leave in the store.   *)
(***************************************************************************)
Actions == lastBatch.request.actions

\* The audit records written since the call began.
Persisted == SubSeq(audits, lastBatch.audits_before + 1, Len(audits))

\* The open transaction as the k-th action finds it, its predecessors applied.
RECURSIVE TxBefore(_)
TxBefore(k) ==
    IF k = 1 THEN lastBatch.before
    ELSE execute_action_with_transaction(
            TxBefore(k - 1), Actions[k - 1],
            TimeAt(lastBatch.clk, lastBatch.adv, k - 1)).tx

RejectedAt(k) == ~validate_action(Actions[k].type, Actions[k].payload).ok

FailsAt(k) ==
    \/ RejectedAt(k)
    \/ ~execute_action_with_transaction(
            TxBefore(k), Actions[k], TimeAt(lastBatch.clk, lastBatch.adv, k)).ok

\* The position of the first failing action (empty when none fails).
FirstFailing ==
    {k \in 1..Len(Actions) : FailsAt(k) /\ \A j \in 1..(k - 1) : ~FailsAt(j)}

Creates == {"todo.create", "project.create", "event.create", "personal.create"}
Deletes == {"todo.delete", "project.delete", "event.delete", "personal.delete"}
Tables == {"todos", "projects", "events", "personal_tasks"}

TargetTable(type) ==
    CASE type \in {"todo.create", "todo.update", "todo.delete"} -> "todos"
      [] type \in {"project.create", "project.update_progress", "project.delete"}
            -> "projects"
      [] type \in {"event.create", "event.update", "event.delete"} -> "events"
      [] type \in {"personal.create", "personal.update", "personal.delete"}
            -> "personal_tasks"
      [] OTHER -> "none"

\* The row the i-th action addresses: <<table, primary key>>.
Target(i) ==
    LET a == Actions[i] IN
    << TargetTable(a.type),
       IF a.type \in Creates
       THEN CreateId(a.payload, TimeAt(lastBatch.clk, lastBatch.adv, i))
       ELSE UnwrapOr(Get(a.payload, "id"), "") >>

\* The text columns an update type may set.
TextColumns(type) ==
    CASE type = "todo.update" -> {"title", "priority"}
      [] type = "event.update" -> {"title", "date", "color", "note"}
      [] type = "personal.update" -> {"title", "date", "location", "note"}
      [] OTHER -> {}

\* What the i-th action, once committed, leaves in the store st.
Reflected(i, st) ==
    LET a == Actions[i]
        p == a.payload
        table == st[Target(i)[1]]
        id == Target(i)[2]
    IN  CASE a.type \in Creates ->
                id \in DOMAIN table /\ table[id].title = Get(p, "title")
          [] a.type \in Deletes -> id \notin DOMAIN table
          [] a.type = "query.snapshot" -> TRUE
          [] OTHER ->
                id \in DOMAIN table =>
                    /\ \A c \in TextColumns(a.type) :
                            get_optional_str(p, c).t = "str" => table[id][c] = Get(p, c)
                    /\ a.type = "todo.update" /\ Get(p, "completed").t = "bool"
                            => table[id].completed
                                 = Num(IF Get(p, "completed").b THEN 1 ELSE 0)
                    /\ a.type = "project.update_progress"
                            => table[id].progress = Get(p, "progress")
                    /\ a.type = "personal.update" /\ Get(p, "budget").t = "num"
                            => table[id].budget = Get(p, "budget")

\* Rows no action addresses are as they were.
Untouched(before, st) ==
    \A t \in Tables : \A id \in (DOMAIN before[t]) \cup (DOMAIN st[t]) :
        (\A i \in 1..Len(Actions) : Target(i) # <<t, id>>)
            => id \in DOMAIN before[t] /\ id \in DOMAIN st[t] /\ st[t][id] = before[t][id]

\* The store holds the mutation of every action no later action overwrote.
ReflectsAll(before, st) ==
    /\ \A i \in 1..Len(Actions) :
            (\A j \in (i + 1)..Len(Actions) : Target(j) # Target(i)) => Reflected(i, st)
    /\ Untouched(before, st)

(***************************************************************************)
(* Batch executor: failure.                                                *)
(***************************************************************************)
\* C1: when an action of a batch is the first to fail, for whatever reason
\* (an unsupported type and a malformed payload included), the store is
\* left as it was before the batch and exactly one failure audit record,
\* that of the failing action, is written.  Stated for a store that answers
\* every transaction call.
C1_FailureRollsBackWithOneRecord ==
    lastBatch.called /\ lastBatch.fault = "none" =>
        \A k \in FirstFailing :
            /\ store = lastBatch.before
            /\ Len(Persisted) = 1
            /\ ~Persisted[1].success
            /\ Persisted[1].action_id = Actions[k].id

(***************************************************************************)
(* Batch executor: success.                                                *)
(***************************************************************************)
\* The outcome of a batch none of whose actions fails: committed, success
\* true, one success record per action in submission order (the same
\* records persisted), and the store reflecting every mutation.
CommittedInOrder ==
    /\ lastBatch.out.ok
    /\ lastBatch.out.response.success
    /\ Len(lastBatch.out.response.records) = Len(Actions)
    /\ \A i \in 1..Len(Actions) :
            /\ lastBatch.out.response.records[i].action_id = Actions[i].id
            /\ lastBatch.out.response.records[i].success
    /\ Persisted = lastBatch.out.response.records
    /\ ReflectsAll(lastBatch.before, store)

C5_ValidationFailureIsReported ==
    lastBatch.called /\ lastBatch.fault = "none" =>
        \A k \in FirstFailing :
            RejectedAt(k) =>
                /\ lastBatch.out.ok
                /\ ~lastBatch.out.response.success
                /\ lastBatch.out.response.message
                     = validate_action(Actions[k].type, Actions[k].payload).err
                /\ Len(Persisted) = 1
                /\ ~Persisted[1].success
                /\ Persisted[1].action_id = Actions[k].id

\* The actions the loop reached: all of them, or those up to the first failure.
Attempted ==
    IF FirstFailing = {} THEN 1..Len(Actions)
    ELSE 1..(CHOOSE k \in FirstFailing : TRUE)

\* As many records carry an id as attempted actions do.
OneRecordEach ==
    /\ Len(Persisted) = Cardinality(Attempted)
    /\ \A i \in Attempted :
            Cardinality({j \in 1..Len(Persisted) : Persisted[j].action_id = Actions[i].id})
                = Cardinality({h \in Attempted : Actions[h].id = Actions[i].id})

Returned(r) == chat[r].pc = "done"

\* The call in slot r got past the snapshot and its provider call failed.
ProviderFailed(r) == chat[r].path # "snapshot_err" /\ ~chat[r].result.ok

\* sub occurs in s.
Contains(s, sub) ==
    \E i \in 0..(Len(s) - Len(sub)) : SubSeq(s, i + 1, i + Len(sub)) = sub

\* C3: agent_chat never returns an error: whatever the request, the
\* provider's answer and the actions it proposes (an unsupported type and a
\* non-object payload included), the call returns a {reply, actions} value.
\* Stated for a store that answers every call.
C3_ChatNeverReturnsError ==
    \A r \in Slots :
        Returned(r) /\ chat[r].path # "snapshot_err" /\ lastBatch.fault = "none"
            => chat[r].ret.ok

\* C4: whenever the provider call fails, agent_chat returns a non-error
\* response with exactly one action, of type query.snapshot with
\* requiresApproval=true, and a reply that embeds the failure reason.
C4_ProviderFailureFallsBack ==
    \A r \in Slots :
        Returned(r) /\ ProviderFailed(r) =>
            /\ chat[r].ret.ok
            /\ Len(chat[r].ret.response.actions) = 1
            /\ chat[r].ret.response.actions[1].type = "query.snapshot"
            /\ chat[r].ret.response.actions[1].requires_approval
            /\ Contains(chat[r].ret.response.reply, chat[r].result.err)

C4_Witness ==
    \E r \in Slots :
        /\ Returned(r) /\ ProviderFailed(r)
        /\ chat[r].request.settings.provider = "codex_local"
        /\ Contains(chat[r].ret.response.reply, "timed out")
        /\ Len(chat[r].ret.response.actions) = 1

(***************************************************************************)
(* Stage events.                                                           *)
(***************************************************************************)
\* C7: under any interleaving of the detached persistence tasks and of
\* concurrent chat requests, the stage events stored for one request id
\* appear, by creation order, in the order in which they were emitted.
C7_StoredInEmissionOrder ==
    \A i, j \in 1..Len(agent_events) :
        i < j /\ emitted[agent_events[i]].request_id = emitted[agent_events[j]].request_id
            => agent_events[i] < agent_events[j]

\* The stages emitted for the request of slot r, in emission order.
RECURSIVE StagesOf(_, _)
StagesOf(evs, request_id) ==
    IF evs = <<>> THEN <<>>
    ELSE LET rest == StagesOf(Tail(evs), request_id) IN
         IF Head(evs).request_id = request_id THEN <<Head(evs).stage>> \o rest ELSE rest

\* A path of runtime_detect -> [mcp_connect] -> planning -> executing ->
\* (completed | error -> fallback -> completed).
StagePath(E) ==
    /\ Len(E) >= 1 /\ E[1] = "runtime_detect"
    /\ \A i \in 1..Len(E) :
            E[i] \in {"executing", "completed"} => \E j \in 1..(i - 1) : E[j] = "planning"
    /\ \A i \in 1..Len(E) :
            E[i] = "error" =>
                \E j \in (i + 1)..Len(E) :
                    E[j] = "fallback" /\ \A h \in (i + 1)..(j - 1) : E[h] # "completed"
    /\ Cardinality({i \in 1..Len(E) : E[i] = "completed"}) = 1
    /\ E[Len(E)] = "completed"

\* C8: for every chat request and every provider, the stage events emitted
\* form a path of the state machine: runtime_detect first, planning before
\* any executing and any completed, every error followed by fallback before
\* completed, completed exactly once and last.  Stated for the calls whose
\* provider call succeeds and that return a reply.
C8_StagesFollowTheMachine ==
    \A r \in Slots :
        Returned(r) /\ chat[r].ret.ok /\ chat[r].result.ok
            => StagePath(StagesOf(emitted, chat[r].request_id))

(***************************************************************************)
(* Session record and returned actions.                                    *)
(***************************************************************************)
\* C9: every agent_chat call, whichever path it takes (provider success
\* with or without auto-executed actions, the batch succeeding, failing or
\* erroring, or fallback), has written before it ends exactly one session
\* row with the request id, the provider name, the last user message and
\* the reply it returns.  Stated for a store that answers every call.
C9_OneSessionWrite ==
    \A r \in Slots :
        Returned(r) /\ chat[r].path # "snapshot_err" /\ lastBatch.fault = "none" =>
            /\ Len(sessions) = 1
            /\ sessions[1].request_id = chat[r].request_id
            /\ sessions[1].provider = chat[r].request.settings.provider
            /\ sessions[1].user_message = LatestUser(chat[r].request.messages)
            /\ chat[r].ret.ok => sessions[1].reply = chat[r].ret.response.reply

\* C10: agent_chat returns a non-empty actions array if and only if the
\* fallback path was taken (the provider call failed); on every
\* provider-success path the returned array is empty; and the actions
\* returned on the fallback path have not been executed: the store is as
\* the call found it, no batch ran and no audit record was written.
C10_ActionsOnlyOnFallback ==
    \A r \in Slots :
        Returned(r) /\ chat[r].ret.ok =>
            /\ chat[r].ret.response.actions # <<>> <=> ~chat[r].result.ok
            /\ ~chat[r].result.ok =>
                    /\ store = chat[r].store0
                    /\ ~lastBatch.called
                    /\ audits = <<>>

C10_Witness ==
    \E r \in Slots :
        /\ Returned(r) /\ chat[r].ret.ok /\ chat[r].result.ok
        /\ chat[r].result.response.actions # <<>>
        /\ lastBatch.called /\ lastBatch.out.response.success
        /\ store # chat[r].store0
        /\ chat[r].ret.response.actions = <<>>

(***************************************************************************)
(* Provider dispatch.                                                      *)
(***************************************************************************)
\* The call in slot r has been through call_provider.
Dispatched(r) == chat[r].pc \in {"ok", "err"} \/ (Returned(r) /\ chat[r].path # "snapshot_err")

\* C11: for every chat request at most one provider backend is dispatched,
\* the one settings.provider names, with that provider's own configuration;
\* a remote call is made at most once (a failed one is not re-attempted);
\* and a failure of the active provider goes straight to the local
\* fallback, no further backend being invoked.
C11_OnlyTheActiveProvider ==
    \A r \in Slots :
        Dispatched(r) =>
            LET settings == chat[r].request.settings
                calls == chat[r].result.calls
            IN  /\ \A i \in 1..Len(calls) : calls[i].backend = settings.provider
                /\ settings.provider \in RemoteProviders =>
                        /\ Len(calls) <= 1
                        /\ \A i \in 1..Len(calls) :
                                calls[i].credential = Trim(settings[settings.provider].api_key)
                /\ settings.provider \notin RemoteProviders \cup {"codex_local"} => calls = <<>>
                /\ Returned(r) /\ ~chat[r].result.ok =>
                        /\ chat[r].path = "fallback"
                        /\ chat[r].ret.response
                             = local_fallback_response(chat[r].request.messages,
                                    chat[r].snapshot, Str(chat[r].result.err), now)

C11_Witness ==
    \E r \in Slots :
        /\ Returned(r) /\ chat[r].path = "fallback"
        /\ chat[r].request.settings.provider = "anthropic"
        /\ chat[r].result.calls = <<Dispatch("anthropic", "sk-live")>>
        /\ chat[r].result.err = "Anthropic error 500: no body"

(***************************************************************************)
(* SpecFaults: one command over a persistence layer that may refuse        *)
(* writes.  Any of the agent tables may reject its INSERTs for the whole   *)
(* behaviour; the detached event tasks run, in any order.  The commands:   *)
(* a batch that commits, one that fails in execution, one that fails       *)
(* validation; a chat that falls back, one answered in prose, and one      *)
(* whose proposed actions are auto-executed (committing, failing in        *)
(* execution, failing validation).                                         *)
(***************************************************************************)
PoolAction(pool, id) == CHOOSE a \in pool : a.id = id

FaultBatches ==
    {[request_id |-> Str("req-b"), actions |-> [i \in 1..Len(ids) |->
                                                  PoolAction(ActionPool, ids[i])]] :
        ids \in {<<"a1", "a4">>, <<"a1", "a2">>, <<"a16">>}}

FaultChats ==
    {[request_id |-> Str("req-1"),
      messages |-> << [role |-> "user", content |-> "plan my day"] >>,
      settings |-> Settings("openai", k, DefaultCodex)] : k \in {"", "sk-live"}}

FaultEnvs ==
    {[http |-> [kind |-> "content", content |-> c],
      binary |-> TRUE, probe_ok |-> TRUE, exec |-> NoExec] :
        c \in {<<Word("plain advice")>>}
               \cup {Json(Obj([reply |-> Str("planned"),
                               actions |-> Arr([i \in 1..Len(ids) |->
                                    ProposalValue(PoolAction(ChatPool, ids[i]))])])) :
                        ids \in {<<"p1", "p5">>, <<"p2">>, <<"p4">>}}}

FaultBatch ==
    /\ Quiet
    /\ \E request \in FaultBatches, fault \in TxFaults :
            \E adv \in SUBSET ClockReads(request.actions) :
                ExecuteBatch(request, adv, fault)

FaultChat == Quiet /\ \E request \in FaultChats : ChatStart("s1", request, TRUE)

FaultProvider ==
    /\ chat["s1"].pc = "provider"
    /\ \E env \in FaultEnvs : ChatProvider("s1", env)

InitFaults ==
    /\ sinks \in SUBSET AllSinks
    /\ run = IdleRun
    /\ norm = IdleNorm
    /\ backend = "responsive"
    /\ nanos = 0
    /\ lastAction = NoAction
    /\ store = InitStore
    /\ audits = <<>>
    /\ sessions = <<>>
    /\ emitted = <<>>
    /\ pending = {}
    /\ agent_events = <<>>
    /\ now = StartMs
    /\ chat = [r \in Slots |-> IdleChat]
    /\ lastBatch = [called |-> FALSE, request |-> JNull, before |-> JNull,
                    audits_before |-> 0, clk |-> 0, adv |-> {}, fault |-> "none",
                    out |-> JNull]

FaultOk ==
    /\ chat["s1"].pc = "ok"
    /\ \E fault \in TxFaults, adv \in SUBSET (1..MaxBatch) : ChatOk("s1", adv, fault)

FaultErr == ChatFallback("s1")

DetachedWrite == \E i \in pending : PersistEvent(i)

NextFaults ==
    FaultBatch \/ FaultChat \/ FaultProvider \/ FaultOk \/ FaultErr \/ DetachedWrite

SpecFaults == InitFaults /\ [][NextFaults]_vars

\* The batch executor run again on the inputs of the last call.
Replay ==
    agent_execute_actions_atomic(lastBatch.before, lastBatch.request, lastBatch.clk,
                                 lastBatch.adv, lastBatch.fault)

\* What agent_chat returns in slot r, from its inputs alone.
ExpectedRet(r) ==
    LET c == chat[r] IN
    IF ~c.result.ok
    THEN ChatRet(TRUE, "", local_fallback_response(c.request.messages, c.snapshot,
                                                    Str(c.result.err), now))
    ELSE IF c.result.response.actions = <<>> THEN ChatRet(TRUE, "", c.result.response)
    ELSE IF Replay.ok
    THEN ChatRet(TRUE, "", FoldExecution(c.result.response,
                                         ExecutionReply(c.result.response, Replay)))
    ELSE ChatRet(FALSE, Replay.err, JNull)

RECURSIVE AttemptEvents(_)
AttemptEvents(evs) ==
    IF evs = <<>> THEN <<>>
    ELSE IF Head(evs).stage = "executing" /\ "actionId" \in DOMAIN Head(evs).meta
    THEN <<Head(evs)>> \o AttemptEvents(Tail(evs))
    ELSE AttemptEvents(Tail(evs))

\* C13: during a batch run with a request id, one executing event is
\* emitted after each action attempt (an attempt that fails validation
\* included); its counters satisfy completed = success + failed,
\* completed <= total, failed <= 1, completed growing by exactly 1 per
\* attempt; and on abort an error event carrying the failure reason follows
\* the failing attempt's executing event.  Stated for a store that answers
\* every transaction call.
C13_OneProgressEventPerAttempt ==
    lastBatch.called /\ lastBatch.request.request_id.t = "str"
        /\ lastBatch.fault = "none" =>
        LET evs == lastBatch.out.evs
            steps == AttemptEvents(evs)
        IN  /\ Len(steps) = Cardinality(Attempted)
            /\ \A i \in 1..Len(steps) :
                    /\ steps[i].meta.actionId = Actions[i].id
                    /\ steps[i].meta.completed = i
                    /\ steps[i].meta.completed
                         = steps[i].meta.success + steps[i].meta.failed
                    /\ steps[i].meta.completed <= steps[i].meta.total
                    /\ steps[i].meta.failed <= 1
            /\ FirstFailing # {} =>
                    /\ Len(evs) >= 2
                    /\ evs[Len(evs)].stage = "error"
                    /\ "reason" \in DOMAIN evs[Len(evs)].meta
                    /\ evs[Len(evs) - 1] = steps[Len(steps)]
                    /\ steps[Len(steps)].meta.failed = 1

(***************************************************************************)
(* Local runtime: the bounded retry.                                       *)
(***************************************************************************)
\* The call in slot r went to the local runtime.
LocalRuntime(r) == Dispatched(r) /\ chat[r].request.settings.provider = "codex_local"

\* The first invocation succeeded and normalized to a generic
\* self-introduction without actions.
FirstIsGeneric(env) ==
    LET first == run_codex_exec(env.exec[1]) IN
    /\ first.ok
    /\ parse_llm_response(first.val).ok
    /\ is_generic_identity_reply(parse_llm_response(first.val).response.reply)
    /\ parse_llm_response(first.val).response.actions = <<>>

\* C14: for one chat request handled by the local runtime the executable
\* is invoked for generation at most twice; the second, reinforced
\* invocation happens exactly when the first succeeded and normalized to a
\* generic self-introduction reply with no actions; and the outcome of the
\* second invocation is final, even when it is a generic reply again.
C14_AtMostOneReinforcedRun ==
    \A r \in Slots :
        LocalRuntime(r) =>
            LET env == chat[r].env
                codex == chat[r].request.settings.codex
                runs == Len(chat[r].result.calls)
                second == run_codex_exec(env.exec[2])
            IN  /\ runs <= 2
                /\ runs = 2 <=> codex.enabled /\ env.binary /\ FirstIsGeneric(env)
                /\ runs = 2 =>
                        /\ chat[r].result.ok
                             = (second.ok /\ parse_llm_response(second.val).ok)
                        /\ ~second.ok => chat[r].result.err = second.err
                        /\ chat[r].result.ok =>
                                chat[r].result.response
                                  = parse_llm_response(second.val).response

C14_Witness ==
    \E r \in Slots :
        /\ LocalRuntime(r) /\ Returned(r)
        /\ Len(chat[r].result.calls) = 2
        /\ chat[r].result.ok
        /\ is_generic_identity_reply(chat[r].result.response.reply)
        /\ chat[r].ret.response.reply = chat[r].result.response.reply

(***************************************************************************)
(* SpecTimeout: one run_codex_exec invocation against the clock.  The      *)
(* configured request_timeout_ms and the time the child takes (or that it  *)
(* never finishes) are drawn from a grid around the one-second floor.      *)
(***************************************************************************)
StepMs == 250
MaxTimeoutSteps == 8
MaxRunSteps == 10

ConfiguredTimeouts == {StepMs * k : k \in 0..MaxTimeoutSteps}

Children ==
    {[finishes |-> TRUE, after |-> StepMs * k] : k \in 0..MaxRunSteps}
    \cup {[finishes |-> FALSE, after |-> 0]}

InitTimeout ==
    /\ run \in {[IdleRun EXCEPT !.pc = "running", !.request_timeout_ms = t, !.child = c] :
                    t \in ConfiguredTimeouts, c \in Children}
    /\ norm = IdleNorm
    /\ sinks = AllSinks
    /\ backend = "responsive"
    /\ nanos = 0
    /\ lastAction = NoAction
    /\ store = InitStore
    /\ audits = <<>>
    /\ sessions = <<>>
    /\ emitted = <<>>
    /\ pending = {}
    /\ agent_events = <<>>
    /\ now = StartMs
    /\ chat = [r \in Slots |-> IdleChat]
    /\ lastBatch = [called |-> FALSE, request |-> JNull, before |-> JNull,
                    audits_before |-> 0, clk |-> 0, adv |-> {}, fault |-> "none",
                    out |-> JNull]

\* The await of lines 3317-3320 resolves.
AwaitExec ==
    /\ run.pc = "running"
    /\ run' = [run EXCEPT !.pc = "returned",
                          !.result = timeout_output(run.request_timeout_ms, run.child)]
    /\ now' = now + run'.result.waited
    /\ UNCHANGED <<store, audits, sessions, emitted, pending, agent_events, chat,
                   lastBatch, sinks, backend, norm, nanos, lastAction>>

NextTimeout == AwaitExec

SpecTimeout == InitTimeout /\ [][NextTimeout]_vars

\* The slack allowed on top of a deadline.
EpsilonMs == 50

\* The child runs longer than ms milliseconds.
RunsLongerThan(ms) == ~run.child.finishes \/ run.child.after > ms

\* C15, as stated: an invocation that runs longer than the configured
\* timeoutMs returns a timeout error and does not block its caller beyond
\* timeoutMs plus epsilon, for every configured value, those below the
\* one-second floor included.
C15_BoundedByConfiguredTimeout ==
    run.pc = "returned" /\ RunsLongerThan(run.request_timeout_ms) =>
        /\ run.result.kind = "timeout"
        /\ run.result.waited <= run.request_timeout_ms + EpsilonMs
        /\ now - StartMs <= run.request_timeout_ms + EpsilonMs

\* C15, amended: an invocation that runs longer than the larger of the
\* configured timeoutMs and the one-second floor returns a timeout error,
\* and no invocation blocks its caller beyond that deadline plus epsilon;
\* one that ends within the deadline is not timed out.
C15_BoundedByFlooredTimeout ==
    run.pc = "returned" =>
        LET deadline == Max(run.request_timeout_ms, TimeoutFloorMs) IN
        /\ run.result.kind = "timeout" <=> RunsLongerThan(deadline)
        /\ run.result.waited <= deadline + EpsilonMs
        /\ now - StartMs <= deadline + EpsilonMs

C15_Witness ==
    /\ run.pc = "returned"
    /\ run.request_timeout_ms = 2 * StepMs
    /\ ~run.child.finishes
    /\ run.result.kind = "timeout"
    /\ run.result.waited = TimeoutFloorMs

(***************************************************************************)
(* SpecLive: one agent_chat call against a backend that answers or stays   *)
(* silent for the whole behaviour.  The runtime keeps polling the task of  *)
(* the call: each step of the call that can be taken is eventually taken.  *)
(***************************************************************************)
InitLive ==
    /\ backend \in {"responsive", "silent"}
    /\ nanos = 0
    /\ lastAction = NoAction
    /\ sinks = AllSinks
    /\ run = IdleRun
    /\ norm = IdleNorm
    /\ store = InitStore
    /\ audits = <<>>
    /\ sessions = <<>>
    /\ emitted = <<>>
    /\ pending = {}
    /\ agent_events = <<>>
    /\ now = StartMs
    /\ chat = [r \in Slots |-> IdleChat]
    /\ lastBatch = [called |-> FALSE, request |-> JNull, before |-> JNull,
                    audits_before |-> 0, clk |-> 0, adv |-> {}, fault |-> "none",
                    out |-> JNull]

LiveSettings ==
    { Settings(p, k, DefaultCodex) : p \in RemoteProviders, k \in {"", "sk-live"} }
    \cup { Settings("codex_local", "", DefaultCodex),
           Settings("gemini", "sk-live", DefaultCodex) }

LiveRequests ==
    {[request_id |-> Str("req-1"),
      messages |-> << [role |-> "user", content |-> "plan my day"] >>,
      settings |-> s] : s \in LiveSettings}

LiveChat == Quiet /\ \E request \in LiveRequests : ChatStart("s1", request, TRUE)

LiveProvider ==
    /\ chat["s1"].pc = "provider"
    /\ \E env \in Envs(chat["s1"].request) : ChatProvider("s1", env)

LiveOk ==
    /\ chat["s1"].pc = "ok"
    /\ \E adv \in SUBSET (1..MaxBatch) : ChatOk("s1", adv, "none")

LiveErr == ChatFallback("s1")

NextLive == LiveChat \/ LiveProvider \/ LiveOk \/ LiveErr

SpecLive ==
    /\ InitLive /\ [][NextLive]_vars
    /\ WF_vars(LiveProvider) /\ WF_vars(LiveOk) /\ WF_vars(LiveErr)

\* The request of slot r has been through fallback to completed.
FellBack(r) ==
    /\ Returned(r) /\ chat[r].ret.ok /\ chat[r].path = "fallback"
    /\ \E i \in 1..Len(emitted) :
            emitted[i].request_id = chat[r].request_id /\ emitted[i].stage = "completed"

\* C16: every chat request eventually completes even when the selected
\* backend never responds: the remote HTTP call or local subprocess that
\* exceeds its timeout is abandoned and treated as a provider failure, and
\* the request proceeds through fallback to completed.
C16_SilentBackendFallsBack ==
    \A r \in Slots :
        (chat[r].pc = "provider" /\ backend = "silent") ~> FellBack(r)

\* The same for the local runtime alone, whose subprocesses have deadlines.
LocalRuntimeFallsBack ==
    \A r \in Slots :
        (chat[r].pc = "provider" /\ backend = "silent"
            /\ chat[r].request.settings.provider \notin RemoteProviders) ~> FellBack(r)

(***************************************************************************)
(* SpecParse: parse_llm_response applied to one raw model output, drawn    *)
(* from every text of up to MaxTextLen segments over a small alphabet,     *)
(* the fenced reply of the documentation, and a range of JSON documents    *)
(* bare, fenced and inside prose.                                          *)
(***************************************************************************)
\* Longest raw text enumerated over the alphabet.
MaxTextLen == 5

OkDoc == Obj([reply |-> Str("ok"), actions |-> Arr(<<>>)])

Alphabet == {Ws, Word("note"), FenceJson, Fence, LBrace, RBrace, Doc(OkDoc)}

ExampleText ==
    << Word("Here is the plan:"), Nl, FenceJson, Nl, Doc(OkDoc), Nl, Fence, Nl,
       Word("Done.") >>

WellFormed == ProposalValue(Action("p1", "todo.create", Obj([title |-> Str("buy milk")])))

\* WellFormed without one of its keys.
Without(key) == Obj([k \in DOMAIN WellFormed.f \ {key} |-> WellFormed.f[k]])

ActionLists ==
    { Arr(<<>>), Arr(<<WellFormed>>), Arr(<<WellFormed, WellFormed>>),
      Str("none"), JNull, Obj(<<>>), Num(1),
      Arr(<<Num(1)>>), Arr(<<WellFormed, Without("payload")>>),
      Arr(<<Without("id"), WellFormed>>),
      Arr(<<Obj([k \in DOMAIN WellFormed.f |->
                    IF k = "requiresApproval" THEN Str("yes") ELSE WellFormed.f[k]])>>) }
    \cup { Arr(<<Without(key)>>) : key \in ProposalKeys }

Docs ==
    { Obj([reply |-> Str("ok"), actions |-> a]) : a \in ActionLists }
    \cup { Obj([actions |-> a]) : a \in ActionLists }
    \cup { Obj([reply |-> Str("ok")]), Obj([reply |-> Num(7)]), Obj([note |-> Str("x")]),
           Obj(<<>>), Num(42), Str("hi"), JNull, Bool(TRUE), Arr(<<>>) }

DocTexts ==
    { pre \o <<Doc(d)>> \o post :
        d \in Docs,
        pre \in { <<>>, <<Ws>>, <<Word("Sure."), Nl, FenceJson, Nl>>, <<Word("Plan:"), Ws>>,
                  <<LBrace, Word("x"), RBrace, Ws, FenceJson>> },
        post \in { <<>>, <<Nl>>, <<Nl, Fence, Nl, Word("Done.")>>, <<Ws, Word("ok?")>>,
                   <<Fence, RBrace>> } }

RawTexts == SeqsOf(Alphabet, 0, MaxTextLen) \cup {ExampleText} \cup DocTexts

InitParse ==
    /\ norm \in {[IdleNorm EXCEPT !.pc = "given", !.fn = "parse_llm_response",
                                   !.content = c] : c \in RawTexts}
    /\ run = IdleRun
    /\ sinks = AllSinks
    /\ backend = "responsive"
    /\ nanos = 0
    /\ lastAction = NoAction
    /\ store = InitStore
    /\ audits = <<>>
    /\ sessions = <<>>
    /\ emitted = <<>>
    /\ pending = {}
    /\ agent_events = <<>>
    /\ now = StartMs
    /\ chat = [r \in Slots |-> IdleChat]
    /\ lastBatch = [called |-> FALSE, request |-> JNull, before |-> JNull,
                    audits_before |-> 0, clk |-> 0, adv |-> {}, fault |-> "none",
                    out |-> JNull]

Normalize ==
    /\ norm.pc = "given" /\ norm.fn = "parse_llm_response"
    /\ norm' = [norm EXCEPT !.pc = "done", !.result = parse_llm_response(norm.content)]
    /\ UNCHANGED <<store, audits, sessions, emitted, pending, agent_events, now, chat,
                   lastBatch, sinks, run, backend, nanos, lastAction>>

NextParse == Normalize

SpecParse == InitParse /\ [][NextParse]_vars

\* The part of a raw text the normalizer is to parse: the interior of the
\* first fenced json block, else the span from the first '{' to the last
\* '}' (empty when no '}' follows the first '{'), else the text.
BlockOf(content) ==
    LET opens == {i \in 1..Len(content) : content[i] = FenceJson}
        closes == {j \in 1..Len(content) :
                        content[j] \in {Fence, FenceJson} /\ j > Lowest(opens)}
        braces == {i \in 1..Len(content) :
                        content[i] \in {LBrace, RBrace}
                        \/ (content[i].seg = "doc" /\ content[i].v.t = "obj")}
        first == Lowest({i \in braces : content[i] # RBrace})
        last == Highest({i \in braces : content[i] # LBrace})
    IN  IF opens # {} /\ closes # {}
        THEN SubSeq(content, Lowest(opens) + 1, Lowest(closes) - 1)
        ELSE IF (braces \ {i \in braces : content[i] = RBrace}) # {}
                /\ (braces \ {i \in braces : content[i] = LBrace}) # {}
        THEN SubSeq(content, first, last)
        ELSE content

\* The actions value of a parsed value is absent or an array of objects
\* that have every key of an ActionProposal, with values of its types.
HasActions(value) == value.t = "obj" /\ "actions" \in DOMAIN value.f

ProposalList(value) ==
    ~HasActions(value)
    \/ /\ value.f["actions"].t = "arr"
       /\ \A i \in 1..Len(value.f["actions"].a) : IsProposal(value.f["actions"].a[i])

\* What a parsed value yields: its reply, a default when it has none, and
\* its actions, none when it has none.
Yields(value) ==
    [reply |-> IF Get(value, "reply").t = "str" THEN Get(value, "reply").s
               ELSE "suggestion generated",
     actions |-> IF HasActions(value)
                 THEN [i \in 1..Len(value.f["actions"].a) |->
                            ToProposal(value.f["actions"].a[i])]
                 ELSE <<>>]

PlainReply(content) == [reply |-> Text(TrimSegs(content)), actions |-> <<>>]

\* C17: the normalizer parses the interior of the fenced json block of the
\* raw text when there is one, whatever braces the prose around it holds,
\* and the span from the first '{' to the last '}' otherwise; the value
\* parsed there yields its reply (a default when absent) and its actions
\* (none when absent), and nothing else of the text is parsed.
C17_ExtractionPriority ==
    norm.pc = "done" =>
        LET parsed == from_str(BlockOf(norm.content)) IN
        /\ ~Panicked(norm.result)
        /\ (parsed.ok /\ ProposalList(parsed.value)) =>
                (norm.result.ok /\ norm.result.response = Yields(parsed.value))
        /\ (~parsed.ok /\ norm.result.ok) =>
                norm.result.response = PlainReply(norm.content)

\* C18: a raw text from which no JSON value is parsed gives its trimmed
\* self as the reply, with no actions, when it is not blank, and the
\* empty-output error when it is empty or blank.
C18_NoJsonGivesPlainReply ==
    (norm.pc = "done" /\ ~from_str(BlockOf(norm.content)).ok) =>
        IF TrimSegs(norm.content) = <<>>
        THEN ~norm.result.ok /\ norm.result.err = "LLM returned empty content"
        ELSE norm.result.ok /\ norm.result.response = PlainReply(norm.content)

\* The texts parse_llm_response was given in the call of slot r: the
\* content of the HTTP answer, or what each codex exec invocation gave.
ParsedTexts(r) ==
    LET env == chat[r].env
        calls == chat[r].result.calls
    IN  IF chat[r].request.settings.provider \in RemoteProviders
        THEN IF calls # <<>> /\ env.http.kind = "content" THEN {env.http.content} ELSE {}
        ELSE {run_codex_exec(env.exec[i]).val :
                i \in {j \in 1..Len(calls) : run_codex_exec(env.exec[j]).ok}}

\* The JSON value normalized from a text carries an actions value that is
\* not an array, or has an element without one of the keys of an
\* ActionProposal.
MalformedActions(text) ==
    LET parsed == from_str(BlockOf(text))
        actions == parsed.value.f["actions"]
    IN  /\ parsed.ok /\ HasActions(parsed.value)
        /\ \/ actions.t # "arr"
           \/ \E i \in 1..Len(actions.a) :
                actions.a[i].t # "obj" \/ ~(ProposalKeys \subseteq DOMAIN actions.a[i].f)

\* C19: when the normalized JSON object carries an actions value that is
\* not an array of well-formed ActionProposal objects, parse_llm_response
\* returns an error for the whole response, keeping no element and not
\* treating the text as a plain reply, and agent_chat takes the fallback
\* path without executing any action.
C19_MalformedActionsFailTheResponse ==
    \A r \in Slots :
        (/\ chat[r].pc \in {"ok", "err", "panicked", "done"}
         /\ chat[r].path # "snapshot_err"
         /\ \E text \in ParsedTexts(r) : MalformedActions(text)) =>
            /\ \A text \in ParsedTexts(r) :
                    MalformedActions(text) =>
                        /\ ~parse_llm_response(text).ok
                        /\ parse_llm_response(text).err
                                = "LLM actions parse failed: invalid type"
            /\ ~chat[r].result.ok
            /\ chat[r].result.err = "LLM actions parse failed: invalid type"
            /\ chat[r].pc \in {"err", "done"}
            /\ Returned(r) =>
                    /\ chat[r].path = "fallback" /\ chat[r].ret.ok
                    /\ store = chat[r].store0 /\ ~lastBatch.called /\ audits = <<>>

\* A call that was answered a well-formed action followed by a malformed
\* one has returned.
C19_Witness ==
    \E r \in Slots :
        /\ Returned(r) /\ chat[r].path = "fallback"
        /\ \E text \in ParsedTexts(r) :
                /\ MalformedActions(text)
                /\ from_str(BlockOf(text)).value.f["actions"].t = "arr"
                /\ Len(from_str(BlockOf(text)).value.f["actions"].a) = 2

(***************************************************************************)
(* SpecCodex: run_codex_exec's handling of the stdout of a subprocess that *)
(* exited with success: up to MaxLines lines, each a payload record, an    *)
(* agent_message item (with a text or without), another item, a JSON       *)
(* value that is no object, broken JSON, or a log line.                    *)
(***************************************************************************)
\* Most lines of a stdout.
MaxLines == 3

PayloadRecord(reply, actions) == Obj([payload |-> Obj([reply |-> reply, actions |-> actions])])

Item(type, text) == Obj([type |-> Str("item.completed"),
                         item |-> Obj([type |-> Str(type), text |-> text])])

StdoutLines ==
    { <<Doc(PayloadRecord(Str("done"), Arr(<<WellFormed>>)))>>,
      <<Ws, Doc(Obj([payload |-> Obj([reply |-> Str("later")])]))>>,
      <<Doc(PayloadRecord(Num(1), Arr(<<>>)))>>,
      <<Doc(Item("agent_message", StrText(<<Doc(OkDoc)>>)))>>,
      <<Doc(Item("agent_message", Str("first idea")))>>,
      <<Doc(Item("agent_message", JNull))>>,
      <<Doc(Item("reasoning", Str("thinking")))>>,
      <<Doc(Num(1))>>,
      <<LBrace, Word("oops")>>,
      <<Word("reading prompt from stdin")>> }

RECURSIVE JoinLines(_)
JoinLines(lines) ==
    IF lines = <<>> THEN <<>> ELSE Head(lines) \o <<Nl>> \o JoinLines(Tail(lines))

Stdouts == {JoinLines(lines) : lines \in SeqsOf(StdoutLines, 0, MaxLines)}

InitCodex ==
    /\ norm \in {[IdleNorm EXCEPT !.pc = "given", !.fn = "run_codex_exec",
                                   !.content = c] : c \in Stdouts}
    /\ run = IdleRun
    /\ sinks = AllSinks
    /\ backend = "responsive"
    /\ nanos = 0
    /\ lastAction = NoAction
    /\ store = InitStore
    /\ audits = <<>>
    /\ sessions = <<>>
    /\ emitted = <<>>
    /\ pending = {}
    /\ agent_events = <<>>
    /\ now = StartMs
    /\ chat = [r \in Slots |-> IdleChat]
    /\ lastBatch = [called |-> FALSE, request |-> JNull, before |-> JNull,
                    audits_before |-> 0, clk |-> 0, adv |-> {}, fault |-> "none",
                    out |-> JNull]

ExtractLast ==
    /\ norm.pc = "given" /\ norm.fn = "run_codex_exec"
    /\ norm' = [norm EXCEPT !.pc = "done",
                            !.result = run_codex_exec([kind |-> "ok",
                                                       content |-> norm.content])]
    /\ UNCHANGED <<store, audits, sessions, emitted, pending, agent_events, now, chat,
                   lastBatch, sinks, run, backend, nanos, lastAction>>

NextCodex == ExtractLast

SpecCodex == InitCodex /\ [][NextCodex]_vars

\* The JSON object a line holds (JNull for a line that is not one).
RecordOf(line) ==
    LET parsed == from_str(TrimSegs(line)) IN
    IF parsed.ok /\ parsed.value.t = "obj" THEN parsed.value ELSE JNull

\* A record shaped {payload: {reply, ..}}, its reply a string.
PayloadShaped(record) == Get(Get(record, "payload"), "reply").t = "str"

\* A record shaped as an agent_message item with a text.
AgentMessage(record) ==
    LET type == Get(Get(record, "item"), "type") IN
    /\ type.t = "str" /\ type.s = "agent_message"
    /\ Get(Get(record, "item"), "text").t = "str"

PayloadOf(record) ==
    LET payload == Get(record, "payload") IN
    Obj([reply |-> Get(payload, "reply"),
         actions |-> IF "actions" \in DOMAIN payload.f THEN payload.f["actions"]
                     ELSE Arr(<<>>)])

\* C20: over every sequence of stdout lines extract_codex_last_message
\* returns the reply and actions of a payload-shaped record whenever a
\* line is such a record, wherever it stands among the agent_message
\* records; otherwise the text of the last agent_message record; otherwise
\* the whole trimmed stdout.  Lines that are not JSON objects are skipped.
C20_PayloadThenLastMessageThenStdout ==
    (norm.pc = "done" /\ norm.fn = "run_codex_exec" /\ TrimSegs(norm.content) # <<>>) =>
        LET stdout == TrimSegs(norm.content)
            records == [i \in 1..Len(Lines(stdout)) |-> RecordOf(Lines(stdout)[i])]
            payloads == {i \in DOMAIN records : PayloadShaped(records[i])}
            messages == {i \in DOMAIN records : AgentMessage(records[i])}
        IN  /\ norm.result.ok
            /\ IF payloads # {}
               THEN \E i \in payloads : norm.result.val = <<Doc(PayloadOf(records[i]))>>
               ELSE IF messages # {}
               THEN norm.result.val
                        = Lex(Get(Get(records[Highest(messages)], "item"), "text"))
               ELSE norm.result.val = stdout

\* A payload record that follows an agent_message record was returned.
C20_Witness ==
    /\ norm.pc = "done" /\ norm.fn = "run_codex_exec" /\ norm.result.ok
    /\ LET lines == Lines(TrimSegs(norm.content)) IN
       \E i, j \in 1..Len(lines) :
            /\ i < j
            /\ AgentMessage(RecordOf(lines[i])) /\ PayloadShaped(RecordOf(lines[j]))
            /\ norm.result.val = <<Doc(PayloadOf(RecordOf(lines[j])))>>
(***************************************************************************)
(* Local runtime: the capability probe.                                    *)
(***************************************************************************)
\* The stages of a list of events, in order.
Stages(evs) == [i \in 1..Len(evs) |-> evs[i].stage]

\* The local runtime of slot r is enabled and its executable was found.
RuntimeFound(r) ==
    /\ chat[r].request.settings.codex.enabled
    /\ resolve_codex_binary(chat[r].request.settings.codex.binary_path,
                            chat[r].env.binary).ok

\* C21: in the local-runtime path the probe of the rich channel never gates
\* the invocation.  When the rich channel is preferred, mcp_connect is
\* emitted and a probe failure emits exec_fallback after it; in both probe
\* outcomes planning comes next and the executable is invoked.  When the
\* rich channel is not preferred neither event is emitted; exec_fallback
\* never comes without mcp_connect before it.
C21_ProbeNeverGates ==
    \A r \in Slots :
        LocalRuntime(r) /\ RuntimeFound(r) =>
            LET codex == chat[r].request.settings.codex
                E == Stages(chat[r].result.evs)
                calls == chat[r].result.calls
            IN  /\ E = <<"runtime_detect">>
                        \o (IF codex.prefer_mcp
                            THEN <<"mcp_connect">>
                                 \o (IF chat[r].env.probe_ok THEN <<>>
                                     ELSE <<"exec_fallback">>)
                            ELSE <<>>)
                        \o <<"planning">>
                /\ calls # <<>>
                /\ \A i \in 1..Len(calls) : calls[i].backend = "codex_local"
                /\ \A i \in 1..Len(E) :
                        E[i] = "exec_fallback" => i > 1 /\ E[i - 1] = "mcp_connect"

C21_Witness ==
    \E r \in Slots :
        /\ LocalRuntime(r) /\ RuntimeFound(r) /\ Returned(r)
        /\ chat[r].request.settings.codex.prefer_mcp /\ ~chat[r].env.probe_ok
        /\ Stages(chat[r].result.evs)
             = <<"runtime_detect", "mcp_connect", "exec_fallback", "planning">>
        /\ chat[r].result.ok /\ Len(chat[r].result.calls) = 1
        /\ chat[r].path # "fallback"

(***************************************************************************)
(* Validation and the fields the executor branches require.                *)
(***************************************************************************)
\* The fields each branch reads with get_required_str, in program order.
Required(type) ==
    CASE type \in {"todo.create", "personal.create"} -> <<"title">>
      [] type = "project.create" -> <<"title", "deadline">>
      [] type = "event.create" -> <<"title", "date">>
      [] type \in {"todo.update", "todo.delete", "project.update_progress",
                   "project.delete", "event.update", "event.delete",
                   "personal.update", "personal.delete"} -> <<"id">>
      [] OTHER -> <<>>

\* The required fields action a lacks, in program order.
Missing(a) ==
    SelectSeq(Required(a.type), LAMBDA f : ~get_required_str(a.payload, f).ok)

\* The validator looks at the type and at the kind of the payload only.
ValidatesShapeOnly ==
    \A i \in 1..Len(Actions) :
        LET a == Actions[i] IN
        /\ validate_action(a.type, a.payload).ok
             <=> (a.type \in AllowedTypes /\ a.payload.t = "obj")
        /\ a.payload.t = "obj"
             => validate_action(a.type, a.payload) = validate_action(a.type, Obj(<<>>))

\* The batch failed at action k for its first missing field: success=false,
\* the message naming the field, one failure record, the store as it was.
FailedForMissingField(k) ==
    /\ ~RejectedAt(k)
    /\ lastBatch.out.ok
    /\ ~lastBatch.out.response.success
    /\ lastBatch.out.response.message
         = "Missing required field: " \o Missing(Actions[k])[1]
    /\ Len(Persisted) = 1
    /\ ~Persisted[1].success
    /\ Persisted[1].action_id = Actions[k].id
    /\ Persisted[1].error = Str(lastBatch.out.response.message)
    /\ store = lastBatch.before

\* The first failing action of the batch passes validation and lacks a
\* required field.
LacksField(k) ==
    /\ Actions[k].type \in AllowedTypes /\ Actions[k].payload.t = "obj"
    /\ Missing(Actions[k]) # <<>>

\* C22, as stated: validate_action accepts an action exactly when its type
\* is in the vocabulary and its payload is an object, whatever the fields;
\* a missing required field is found by the executor branch, and in a batch
\* it gives a failed batch (success=false, the message naming the field,
\* one failure record), not a validation rejection.  Stated for the
\* batches whose transaction began, the others reaching no branch.
C22_MissingFieldFailsTheBatch ==
    lastBatch.called =>
        /\ ValidatesShapeOnly
        /\ \A k \in FirstFailing :
              LacksField(k) /\ lastBatch.fault # "begin" => FailedForMissingField(k)

\* C22, amended: the same, for a store that begins the transaction and
\* rolls it back; when the store refuses either, the call returns an error
\* and writes no record.
C22_MissingFieldFailsTheBatchWhenStoreRollsBack ==
    lastBatch.called =>
        /\ ValidatesShapeOnly
        /\ \A k \in FirstFailing :
              LacksField(k) =>
                IF lastBatch.fault \in {"begin", "rollback"}
                THEN ~lastBatch.out.ok /\ Persisted = <<>> /\ store = lastBatch.before
                ELSE FailedForMissingField(k)

C22_Witness ==
    /\ lastBatch.called /\ Len(Actions) = 2
    /\ Actions[1].type = "event.create" /\ ~FailsAt(1)
    /\ FirstFailing = {2} /\ LacksField(2)
    /\ lastBatch.out.ok /\ ~lastBatch.out.response.success
    /\ lastBatch.out.response.message = "Missing required field: title"
    /\ Len(Persisted) = 1 /\ Persisted[1].action_id = Actions[2].id

(***************************************************************************)
(* agent_chat: the requiresApproval flag.                                  *)
(***************************************************************************)
\* The call in slot r went through the Ok arm with actions to execute.
AutoExecuted(r) ==
    /\ Returned(r) /\ chat[r].path \in {"provider", "exec_err"}
    /\ chat[r].result.response.actions # <<>>

\* The actions with their requiresApproval flags inverted.
Inverted(actions) ==
    [i \in 1..Len(actions) |->
        [actions[i] EXCEPT !.requires_approval = ~actions[i].requires_approval]]

\* C23: agent_chat hands every action a provider proposes to the batch
\* executor, whatever its requiresApproval flag; none is held back for the
\* caller, and the executor does the same whatever the flags are: a batch
\* that succeeds has one record per proposed action, flagged or not.
C23_ApprovalFlagIsIgnored ==
    \A r \in Slots :
        AutoExecuted(r) =>
            LET proposed == chat[r].result.response.actions IN
            /\ lastBatch.called
            /\ Actions = proposed
            /\ lastBatch.out
                 = agent_execute_actions_atomic(lastBatch.before,
                        [lastBatch.request EXCEPT !.actions = Inverted(proposed)],
                        lastBatch.clk, lastBatch.adv, lastBatch.fault)
            /\ lastBatch.out.ok /\ lastBatch.out.response.success =>
                    /\ Len(Persisted) = Len(proposed)
                    /\ \A i \in 1..Len(proposed) :
                            /\ Persisted[i].action_id = proposed[i].id
                            /\ Persisted[i].success
            /\ chat[r].ret.ok => chat[r].ret.response.actions = <<>>

C23_Witness ==
    \E r \in Slots :
        /\ AutoExecuted(r) /\ chat[r].ret.ok
        /\ \E i \in 1..Len(Actions) :
                /\ Actions[i].requires_approval
                /\ Actions[i].type = "todo.create"
        /\ lastBatch.out.response.success
        /\ \E id \in DOMAIN store.todos :
                /\ id \notin DOMAIN lastBatch.before.todos
                /\ store.todos[id].title = Str("buy milk")

(***************************************************************************)
(* Clock-derived row ids.                                                  *)
(***************************************************************************)
\* Every action of the batch is a create with the fields its branch
\* requires and without an id of its own.
OnlyFreshCreates ==
    /\ Actions # <<>>
    /\ \A i \in 1..Len(Actions) :
            /\ Actions[i].type \in Creates
            /\ Actions[i].payload.t = "obj"
            /\ Missing(Actions[i]) = <<>>
            /\ "id" \notin DOMAIN Actions[i].payload.f

\* C24: a batch made only of well-formed create actions without explicit
\* ids commits one row per action, whatever the clock reads while it runs:
\* the millisecond ids of two creates of one entity type never collide.
\* Stated for a store that answers every transaction call.
C24_FreshCreatesAlwaysCommit ==
    lastBatch.called /\ lastBatch.fault = "none" /\ OnlyFreshCreates =>
        /\ lastBatch.out.ok
        /\ lastBatch.out.response.success
        /\ \A t \in Tables :
              Cardinality(DOMAIN store[t]) - Cardinality(DOMAIN lastBatch.before[t])
                = Cardinality({i \in 1..Len(Actions) : TargetTable(Actions[i].type) = t})

(***************************************************************************)
(* SpecIds: commands in flight at once and the ids they take from the      *)
(* clock.  The clock is the pair (now, nanos) and advances by Tick alone:  *)
(* two readings with no Tick between them are equal, as the readings of    *)
(* two threads of the runtime can be.  Two agent_chat calls without a      *)
(* requestId, answered in prose; up to two batches handed to the executor  *)
(* without a requestId; the detached persist_agent_event tasks.  The rows  *)
(* of agent_action_audits and agent_events carry their primary key here    *)
(* (the other specifications leave it out, as if every reading differed).  *)
(***************************************************************************)
\* Clock steps in one millisecond (1,000,000 in the source's nanoseconds).
TicksPerMs == 2

\* Steps the clock takes in one behaviour.
MaxTicks == 2

\* chrono::Utc::now().timestamp_nanos_opt(), in clock steps.
timestamp_nanos == now * TicksPerMs + nanos

\* INSERT of rows that carry an id into a table with id TEXT PRIMARY KEY,
\* one statement per row, each result dropped: a row whose id is taken is lost.
RECURSIVE KeyedInsert(_, _)
KeyedInsert(table, rows) ==
    IF rows = <<>> THEN table
    ELSE KeyedInsert(
            IF \E j \in 1..Len(table) : table[j].id = Head(rows).id
            THEN table ELSE Append(table, Head(rows)),
            Tail(rows))

Tick ==
    /\ timestamp_nanos < StartMs * TicksPerMs + MaxTicks
    /\ IF nanos + 1 = TicksPerMs
       THEN now' = now + 1 /\ nanos' = 0
       ELSE now' = now /\ nanos' = nanos + 1
    /\ UNCHANGED <<store, audits, sessions, emitted, pending, agent_events, chat,
                   lastBatch, sinks, run, backend, norm, lastAction>>

IdRequests ==
    {[request_id |-> JNull,
      messages |-> << [role |-> "user", content |-> "plan my day"] >>,
      settings |-> Settings("openai", "sk-live", DefaultCodex)]}

IdBatches ==
    {[request_id |-> JNull, actions |-> actions] :
        actions \in { <<PoolAction(ActionPool, "a4")>>,
                      <<PoolAction(ActionPool, "a5"), PoolAction(ActionPool, "a7")>>,
                      <<PoolAction(ActionPool, "a3")>> }}

IdChat == \E r \in Slots : \E request \in IdRequests : ChatStart(r, request, TRUE)

IdProvider ==
    \E r \in Slots :
        /\ chat[r].pc = "provider"
        /\ \E env \in StreamEnvs : ChatProvider(r, env)

IdOk == \E r \in Slots : chat[r].pc = "ok" /\ ChatOk(r, {}, "none")

\* agent_execute_actions_atomic as a command, its records keyed: the record
\* pushed at loop position j takes the id audit-<reading>, the readings of
\* one call differing by a step each.
IdBatch ==
    /\ ~lastBatch.called \/ lastBatch.audits_before = 0
    /\ \E request \in IdBatches :
          LET out == agent_execute_actions_atomic(store, request, now, {}, "none")
              rows == [j \in 1..Len(out.written) |->
                         [id |-> "audit-" \o ToString(timestamp_nanos + j - 1)]
                         @@ out.written[j]]
          IN  /\ store' = out.store
              /\ audits' = KeyedInsert(audits, rows)
              /\ Emit(out.evs)
              /\ lastBatch' = BatchRecord(request, {}, "none", out)
              /\ UNCHANGED <<sessions, agent_events, now, chat, ambient>>

\* persist_agent_event, run by one detached task: the row takes the id
\* evt-<reading> when the task runs.
IdPersist ==
    \E i \in pending :
        /\ pending' = pending \ {i}
        /\ agent_events' = KeyedInsert(agent_events,
                <<[id |-> "evt-" \o ToString(timestamp_nanos), event |-> i]>>)
        /\ UNCHANGED <<store, audits, sessions, emitted, now, chat, lastBatch, ambient>>

NextIds == Tick \/ IdChat \/ IdProvider \/ IdOk \/ IdBatch \/ IdPersist

SpecIds == Init /\ [][NextIds]_vars

\* The batch before the last one wrote its records under another batch id.
BatchIdsDiffer ==
    lastBatch.called =>
        \A j \in 1..lastBatch.audits_before :
            audits[j].batch_id # lastBatch.out.response.batch_id

\* Two calls without a requestId generated different ones.
RequestIdsDiffer ==
    \A r1, r2 \in Slots :
        r1 # r2 /\ chat[r1].pc # "idle" /\ chat[r2].pc # "idle"
            => chat[r1].request_id # chat[r2].request_id

\* Every record handed to persist_audit_records and every event whose task
\* has run is in its table.
NoInsertLost ==
    /\ lastBatch.called =>
            Len(audits) = lastBatch.audits_before + Len(lastBatch.out.written)
    /\ Len(agent_events) = Len(emitted) - Cardinality(pending)

\* C25: the ids taken from the clock are unique across invocations in
\* flight at once: two batches never share a batch id, two chat requests
\* without a requestId never share the generated one, and no audit or
\* event row is lost because its key is that of another row.
C25_ClockIdsAreUnique == BatchIdsDiffer /\ RequestIdsDiffer /\ NoInsertLost

(***************************************************************************)
(* Audit records and the fate of the transaction.                          *)
(***************************************************************************)
\* C26: a persisted record with success=true implies that the transaction
\* of its batch committed: a batch that rolls back, or whose commit fails,
\* leaves no success=true record; and a failure record is written only
\* after the rollback has completed.
C26_SuccessRecordsOnlyAfterCommit ==
    lastBatch.called =>
        /\ (\E j \in 1..Len(Persisted) : Persisted[j].success) =>
                /\ lastBatch.fault \notin {"begin", "commit"}
                /\ FirstFailing = {}
                /\ lastBatch.out.ok /\ lastBatch.out.response.success
                /\ store = TxBefore(Len(Actions) + 1)
        /\ (\E j \in 1..Len(Persisted) : ~Persisted[j].success) =>
                /\ lastBatch.fault \notin {"begin", "rollback"}
                /\ store = lastBatch.before
                /\ Len(Persisted) = 1

C26_Witness ==
    /\ lastBatch.called /\ lastBatch.fault = "commit"
    /\ Len(Actions) = 2 /\ FirstFailing = {}
    /\ TxBefore(3) # lastBatch.before
    /\ ~lastBatch.out.ok
    /\ Persisted = <<>> /\ store = lastBatch.before

(***************************************************************************)
(* agent_chat: an auto-executed batch that fails in execution.             *)
(***************************************************************************)
\* The provider of slot r answered with actions, and the batch agent_chat
\* ran for them began and met its first failure in an executor branch.
ExecutionFailed(r) ==
    /\ AutoExecuted(r)
    /\ lastBatch.called /\ lastBatch.fault # "begin"
    /\ \E k \in FirstFailing : ~RejectedAt(k)

\* What C27 says of such a call.
AnswersWithTheFailure(r) ==
    LET E == StagesOf(emitted, chat[r].request_id) IN
    /\ chat[r].ret.ok
    /\ chat[r].ret.response.reply
         = chat[r].result.response.reply \o "\n\nauto-execution failed (batch: "
             \o lastBatch.out.response.batch_id \o "): "
             \o lastBatch.out.response.message
    /\ chat[r].ret.response.actions = <<>>
    /\ store = chat[r].store0
    /\ Len(sessions) = 1
    /\ sessions[1].request_id = chat[r].request_id
    /\ sessions[1].reply = chat[r].ret.response.reply
    /\ E # <<>> /\ E[Len(E)] = "completed"
    /\ \E i \in 1..Len(E) : E[i] = "error"
    /\ \A i \in 1..Len(E) : E[i] # "fallback"

\* C27: when the provider succeeds with actions and the auto-executed
\* batch fails at execution time, agent_chat still returns a response and
\* not an error: the provider's reply with the batch id and the failure
\* message appended, no actions, the store unchanged, a session row
\* written, completed emitted, an error stage event and no fallback event.
C27_ExecutionFailureIsAnswered ==
    \A r \in Slots : ExecutionFailed(r) => AnswersWithTheFailure(r)

\* The same for a store that rolls the transaction back.
ExecutionFailureIsAnsweredWhenRolledBack ==
    \A r \in Slots :
        ExecutionFailed(r) /\ lastBatch.fault # "rollback" => AnswersWithTheFailure(r)

(***************************************************************************)
(* Local runtime: the outcome of the reinforced invocation.                *)
(***************************************************************************)
\* call_provider of slot r ran the local runtime twice.
Reinforced(r) ==
    /\ chat[r].pc \in {"ok", "err", "panicked", "done"}
    /\ chat[r].path # "snapshot_err"
    /\ chat[r].request.settings.provider = "codex_local"
    /\ Len(chat[r].result.calls) = 2

\* The first invocation's reply, which the second one was to improve on.
FirstReply(r) == parse_llm_response(run_codex_exec(chat[r].env.exec[1]).val).response

\* C28: when the reinforced second invocation of the local runtime fails
\* (timeout, non-zero exit, empty output, or its output does not
\* normalize), the reply parsed from the first invocation is discarded and
\* the request ends on the fallback path; when it succeeds, its result
\* replaces the first reply and actions.
C28_ReinforcedRunDecides ==
    \A r \in Slots :
        Reinforced(r) =>
            LET second == run_codex_exec(chat[r].env.exec[2])
                succeeded == second.ok /\ parse_llm_response(second.val).ok
            IN  /\ ~succeeded =>
                        /\ chat[r].pc \in {"err", "done"}
                        /\ Returned(r) =>
                                /\ chat[r].path = "fallback"
                                /\ chat[r].ret.response
                                     = local_fallback_response(chat[r].request.messages,
                                            chat[r].snapshot, Str(chat[r].result.err), now)
                                /\ chat[r].ret.response.reply # FirstReply(r).reply
                /\ succeeded =>
                        /\ chat[r].result.ok
                        /\ chat[r].result.response = parse_llm_response(second.val).response

\* The same, apart from the outputs on which the normalizer panics.
ReinforcedRunDecidesUnlessPanic ==
    \A r \in Slots :
        Reinforced(r) /\ chat[r].pc # "panicked" =>
            LET second == run_codex_exec(chat[r].env.exec[2])
                succeeded == second.ok /\ parse_llm_response(second.val).ok
            IN  /\ ~succeeded => chat[r].pc = "err" \/ chat[r].path = "fallback"
                /\ succeeded =>
                        /\ chat[r].result.ok
                        /\ chat[r].result.response = parse_llm_response(second.val).response

(***************************************************************************)
(* Updates and deletes that match no row.                                  *)
(***************************************************************************)
\* Action a is an update or a delete that passes validation and carries
\* what its branch asks for: an id, and for an update something to set.
Addressed(a) ==
    LET p == a.payload IN
    /\ a.type \in AllowedTypes \ (Creates \cup {"query.snapshot"})
    /\ p.t = "obj"
    /\ Missing(a) = <<>>
    /\ a.type = "todo.update" =>
            \/ get_optional_str(p, "title").t # "null"
            \/ Get(p, "completed").t = "bool"
            \/ get_optional_str(p, "priority").t # "null"
    /\ a.type = "project.update_progress" => Get(p, "progress").t = "num"
    /\ a.type = "event.update" =>
            \E f \in {"title", "date", "color", "note"} : get_optional_str(p, f).t # "null"
    /\ a.type = "personal.update" =>
            \/ \E f \in {"title", "date", "location", "note"} :
                    get_optional_str(p, f).t # "null"
            \/ Get(p, "budget").t = "num"

\* The k-th action of the batch was reached and found no row with its id.
MatchesNoRow(k) ==
    /\ k \in Attempted
    /\ Addressed(Actions[k])
    /\ Get(Actions[k].payload, "id").s \notin DOMAIN TxBefore(k)[TargetTable(Actions[k].type)]

\* C29: an update or delete action whose id matches no existing row does
\* not fail: it leaves every table as it was, the batch goes on and can
\* commit, and its audit record says success=true.
C29_NoMatchIsSuccess ==
    lastBatch.called /\ lastBatch.fault # "begin" =>
        \A k \in 1..Len(Actions) :
            MatchesNoRow(k) =>
                /\ ~FailsAt(k)
                /\ TxBefore(k + 1) = TxBefore(k)
                /\ (FirstFailing = {} /\ lastBatch.fault = "none") =>
                        /\ lastBatch.out.ok /\ lastBatch.out.response.success
                        /\ store = TxBefore(Len(Actions) + 1)
                        /\ Persisted[k].action_id = Actions[k].id
                        /\ Persisted[k].success

C29_Witness ==
    /\ lastBatch.called /\ Len(Actions) = 2
    /\ Actions[1].type = "event.delete" /\ MatchesNoRow(1)
    /\ Actions[2].type = "todo.create"
    /\ lastBatch.out.ok /\ lastBatch.out.response.success
    /\ Len(Persisted) = 2 /\ Persisted[1].success
    /\ store.events = lastBatch.before.events
    /\ store.todos # lastBatch.before.todos

(***************************************************************************)
(* SpecSingle: agent_execute_action invoked once with any action of the    *)
(* pool, on the initial store or on the store a batch has left.            *)
(***************************************************************************)
ExecuteAction(action) ==
    LET out == agent_execute_action(store, action, now) IN
    /\ ~lastAction.called
    /\ store' = out.store
    /\ lastAction' = [called |-> TRUE, action |-> action, before |-> store,
                      clk |-> now, out |-> out]
    /\ UNCHANGED <<audits, sessions, emitted, pending, agent_events, now, chat,
                   lastBatch, sinks, run, backend, norm, nanos>>

CallAction == \E action \in ActionPool : ExecuteAction(action)

NextSingle == CallBatch \/ CallAction

SpecSingle == Init /\ [][NextSingle]_vars

\* The one-element batch of the action last executed alone, on the store
\* and at the clock reading that call found, the store answering every
\* transaction call.
AsBatch ==
    agent_execute_actions_atomic(lastAction.before,
        [request_id |-> JNull, actions |-> <<lastAction.action>>],
        lastAction.clk, {}, "none")

\* C30: executing one action alone and as a one-element batch is the same
\* on the store: agent_execute_action(a) and
\* agent_execute_actions_atomic([a]) accept or reject a under the same
\* conditions and leave the domain tables in the same state, the id of a
\* row created from a payload with an id included.
C30_SingleEqualsOneElementBatch ==
    lastAction.called =>
        /\ lastAction.out.ok <=> (AsBatch.ok /\ AsBatch.response.success)
        /\ lastAction.out.store = AsBatch.store

====
